---- MODULE Spec2Model ----
(***************************************************************************)
(* A model of the contract client of js-stellar-sdk: the lifecycle of one  *)
(* AssembledTransaction (build, simulate, simulationData, sign,            *)
(* signAuthEntries, send, signAndSend, toJSON / fromJSON) as written in    *)
(* assembled_transaction.ts, and its hand-over to SentTransaction.         *)
(*                                                                         *)
(* One AssembledTransaction object is followed at a time.  A new build     *)
(* replaces it; toJSON followed by fromJSON replaces it by the restored    *)
(* object, as happens when the JSON is shipped to another signer.  Every   *)
(* method is one action: the caller serialises the calls, and the outcome  *)
(* of each RPC request or signer callback awaited inside a method is an    *)
(* input of the action.                                                    *)
(*                                                                         *)
(* Spec follows every method call; SpecClock lets the clock run between    *)
(* build, simulate and sign; SpecNeeds applies needsNonInvokerSigningBy to *)
(* every auth list up to MaxAuthList and SpecAuthEntries signAuthEntries   *)
(* to every auth list up to MaxAuth; SpecResult reads result after         *)
(* simulations that succeed or fail; SpecSent hands the transaction to     *)
(* SentTransaction.init, whose poll takes one step per getTransaction      *)
(* attempt, and SpecSentFair adds that every attempt is answered.          *)
(***************************************************************************)
EXTENDS Integers, Sequences, FiniteSets, TLC

\* ------------------------------------------------------------------ bounds
\* longest auth list a simulation reports
MaxAuth == 2
\* the clock runs from 0 to MaxTime seconds
MaxTime == 1
\* simulate() is started at most this many times on one transaction
MaxSimulations == 2
\* auth list lengths the standalone check of needsNonInvokerSigningBy draws
MaxAuthList == 4

\* --------------------------------------------------------------- constants
\* utils.DEFAULT_TIMEOUT
DEFAULT_TIMEOUT == 30
\* stellar-base BASE_FEE
BASE_FEE == 100
\* the expiration ledgers an auth entry is stamped with: the live-until ledger
\* getStorageExpiration answers, and one a caller passes itself
LiveUntilLedgers == {9}

CallerExpirations == {12}

NULL_ACCOUNT == "GAAAAAAAAAAAAAAAAAAAAAAAAAAAAAAAAAAAAAAAAAAAAAAAAAAAAWHF"

\* an absent (undefined) object: a field that is not set
None == [undefined |-> TRUE]

\* an absent (undefined) string or callback
Undef == "undefined"

\* the account that builds and seals the envelope, and the other signers
Invoker == "GINVOKER"
CoSigners == {"GALICE", "GBOB"}

\* ------------------------------------------------------ auth entries (xdr)
\* xdr.SorobanAuthorizationEntry: the credentials' type, the account of address
\* credentials, and the signature slot: scvVoid until authorizeEntry fills it
\* with the signature of an account, stamped with an expiration ledger.
SourceEntry == [cred |-> "source", acct |-> Undef, sig |-> "scvVoid", exp |-> 0]

UnsignedEntry(a) == [cred |-> "address", acct |-> a, sig |-> "scvVoid", exp |-> 0]

SignedEntryOf(e, exp) == [e EXCEPT !.sig = e.acct, !.exp = exp]

\* the entries a simulation reports: none of them signed yet
SimEntries == {SourceEntry} \cup {UnsignedEntry(a) : a \in CoSigners}

\* every entry an auth list can hold
AllEntries ==
    SimEntries \cup {SignedEntryOf(UnsignedEntry(a), x) :
                       a \in CoSigners, x \in LiveUntilLedgers \cup CallerExpirations}

\* all sequences over S of length at most n
SeqsUpTo(S, n) == UNION {[1..k -> S] : k \in 0..n}

\* ------------------------------------------------------------- xdr encoding
\* toXDR / fromXDR of an auth entry.  Source credentials are a bare union tag;
\* address credentials carry the account, the expiration ledger and the
\* signature value (tag 1 = scvVoid, tag 16 = scvVec holding the signature).
EntryToXDR(e) ==
    IF e.cred = "source" THEN <<0>>
    ELSE <<1, e.acct, e.exp, IF e.sig = "scvVoid" THEN <<1>> ELSE <<16, e.sig>>>>

EntryFromXDR(x) ==
    IF x[1] = 0 THEN [cred |-> "source", acct |-> Undef, sig |-> "scvVoid", exp |-> 0]
    ELSE [cred |-> "address", acct |-> x[2], sig |-> IF x[4][1] = 1 THEN "scvVoid" ELSE x[4][2],
          exp |-> x[3]]

\* xdr.ScVal: the simulated return value
ScValToXDR(v) == <<3, v>>

ScValFromXDR(x) == x[2]

\* xdr.SorobanTransactionData: the resources of the call, here the number of
\* read-write footprint entries
SorobanDataToXDR(d) == <<d.readWrite>>

SorobanDataFromXDR(x) == [readWrite |-> x[1]]

\* A Transaction (Tx): source account, fee, upper time bound, the auth list of its
\* single invokeHostFunction operation, the soroban data in its ext (None
\* before assembly) and whether the envelope carries the source's signature.
\* Tx.toXDR() / TransactionBuilder.fromXDR
TxToXDR(t) ==
    <<t.source, t.fee, <<0, t.maxTime>>,
      [i \in 1..Len(t.auth) |-> EntryToXDR(t.auth[i])],
      IF t.sorobanData = None THEN <<0>> ELSE <<1, SorobanDataToXDR(t.sorobanData)>>,
      IF t.envSig THEN <<t.source>> ELSE <<>>>>

TxFromXDR(x) ==
    [source |-> x[1], fee |-> x[2], maxTime |-> x[3][2],
     auth |-> [i \in 1..Len(x[4]) |-> EntryFromXDR(x[4][i])],
     sorobanData |-> IF x[5][1] = 0 THEN None ELSE SorobanDataFromXDR(x[5][2]),
     envSig |-> Len(x[6]) > 0]

\* ------------------------------------------------------------ rpc responses
\* simulateTransaction answers with a success, an error or a restore-required
\* response (Api.isSimulationSuccess / isSimulationError / isSimulationRestore)
\* an auth entry with address credentials spends a nonce, a read-write entry
HasAddressEntry(auth) == \E i \in 1..Len(auth) : auth[i].cred = "address"

\* The auth lists drawn: up to the names of the co-signers, so GBOB only
\* appears after GALICE
AliceFirst(auth) ==
    \A i \in 1..Len(auth) :
        auth[i].acct = "GBOB" => \E j \in 1..(i - 1) : auth[j].acct = "GALICE"

\* and an entry of the source account, if any, comes first
SimAuthLists ==
    {a \in SeqsUpTo(SimEntries, MaxAuth) :
        AliceFirst(a) /\ \A i \in 2..Len(a) : a[i].cred # "source"}

SimSuccesses ==
    {[kind |-> "success", result |-> [auth |-> p[1], retval |-> 1],
      transactionData |-> [readWrite |-> p[2]], minResourceFee |-> 7] :
         p \in {q \in SimAuthLists \X (0..1) : HasAddressEntry(q[1]) => q[2] > 0}}

\* The text of an error is held as its words.  The host reports a failure of
\* the contract with the code k as the words Error(Contract, #k); the codes are
\* decimal numerals.
Numerals == <<"0", "1", "2", "3">>

ContractErrorWords(numeral) == <<"Error(Contract, #", numeral, ")">>

\* a failure of the host that is not one of the contract
BudgetExceeded == <<"HostError:", "Error(Budget, ExceededLimit)">>

\* an error response with the text `error`, and a restore response
SimulationError(error) ==
    [kind |-> "error", result |-> None, transactionData |-> None, minResourceFee |-> 0,
     error |-> error]

SimulationRestore ==
    [kind |-> "restore", result |-> None, transactionData |-> None, minResourceFee |-> 0]

SimFailures == {SimulationError(BudgetExceeded), SimulationRestore}

\* the simulation failing with an error of the contract
ContractFailures ==
    {SimulationError(<<"HostError:">> \o ContractErrorWords(Numerals[k + 1])) : k \in 1..2}

\* the request itself failing: postObject throws the JSON-RPC error
RpcRejected == [kind |-> "rejected", result |-> None, transactionData |-> None, minResourceFee |-> 0]

SimResponses == SimSuccesses \cup SimFailures

isSimulationSuccess(sim) == sim.kind = "success"

isSimulationError(sim) == sim.kind = "error"

isSimulationRestore(sim) == sim.kind = "restore"

\* ------------------------------------------------------------------ options
\* `a ?? b` on an optional number, held as <<>> or <<n>>
OrElse(x, default) == IF x = <<>> THEN default ELSE x[1]

\* errorTypes as the client derives it from the error cases of the contract
\* spec: the descriptor of each code.  Here the contract declares code 2 only.
ErrorCases == (2 :> [message |-> "InsufficientBalance"])

\* AssembledTransactionOptions: the method, the account and the wallet callbacks of
\* the client, the per-call timeoutInSeconds and fee, and errorTypes (<<>> when
\* an option is not given).  A client either has an account with its wallet
\* (signTransaction and signAuthEntry) or neither.
OptionsOf(pk, timeout) ==
    [method |-> "swap", publicKey |-> pk,
     signTransaction |-> IF pk = Undef THEN Undef ELSE pk,
     signAuthEntry |-> IF pk = Undef THEN Undef ELSE pk,
     timeoutInSeconds |-> timeout,
     fee |-> <<>>,
     errorTypes |-> <<ErrorCases>>]

\* timeoutInSeconds: unset, or five seconds
Timeouts == {<<>>, <<5>>}

\* the options build is called with: by the invoker, or without an account
BuildOptions == {OptionsOf(pk, <<>>) : pk \in {Undef, Invoker}}

\* the same, with and without a timeoutInSeconds
TimedBuildOptions == {OptionsOf(pk, to) : pk \in {Undef, Invoker}, to \in Timeouts}

\* the options of the client that restores a shipped transaction: the invoker's
\* or a co-signer's
ClientOptions == {OptionsOf(pk, <<>>) : pk \in {Invoker} \cup CoSigners}

\* ------------------------------------------------- AssembledTransaction: reads
\* new AssembledTransaction(options): every other field unset
NewAssembled(options) ==
    [options |-> options, raw |-> None, built |-> None, simulation |-> None,
     simulationResult |-> None, simulationTransactionData |-> None, signed |-> None]

\* [...new Set(list)]: duplicates removed, first occurrences kept in order
RECURSIVE Dedupe(_)
Dedupe(s) ==
    IF s = <<>> THEN <<>>
    ELSE LET init == Dedupe(SubSeq(s, 1, Len(s) - 1))
             last == s[Len(s)]
         IN IF \E i \in 1..Len(init) : init[i] = last THEN init ELSE Append(init, last)

\* the filter of needsNonInvokerSigningBy without its test of the credentials' type
NeedsSigningAnyCredentials(entry, includeAlreadySigned) ==
    includeAlreadySigned \/ entry.sig = "scvVoid"

\* the filter taking includeAlreadySigned as "only the signed entries"
NeedsSigningSignedOnly(entry, includeAlreadySigned) ==
    /\ entry.cred = "address"
    /\ (includeAlreadySigned <=> entry.sig # "scvVoid")

\* the filter of needsNonInvokerSigningBy
NeedsSigning(entry, includeAlreadySigned) ==
    /\ entry.cred = "address"
    /\ (includeAlreadySigned \/ entry.sig = "scvVoid")

\* the map of needsNonInvokerSigningBy: the entry's account as a public key
AccountsOf(entries) == [i \in 1..Len(entries) |-> entries[i].acct]

\* needsNonInvokerSigningBy({includeAlreadySigned}) on a transaction with built set
needsNonInvokerSigningBy(built, includeAlreadySigned) ==
    Dedupe(AccountsOf(SelectSeq(built.auth, LAMBDA e : NeedsSigning(e, includeAlreadySigned))))

\* get simulationData: the error it throws, or "ok"
SimulationDataError(t) ==
    IF t.simulationResult # None /\ t.simulationTransactionData # None THEN "ok"
    ELSE IF t.simulation = None THEN "NotYetSimulated"
    ELSE IF isSimulationError(t.simulation) THEN "SimulationFailed"
    ELSE IF isSimulationRestore(t.simulation) THEN "ExpiredState"
    ELSE IF t.simulation.result = None THEN "NoResult"
    ELSE "ok"

\* get simulationData: the value it returns when it does not throw
SimulationData(t) ==
    IF t.simulationResult # None /\ t.simulationTransactionData # None
    THEN [result |-> t.simulationResult, transactionData |-> t.simulationTransactionData]
    ELSE [result |-> t.simulation.result, transactionData |-> t.simulation.transactionData]

\* get simulationData keeping the result and not the transaction data
AfterSimulationDataResultOnly(t) ==
    IF SimulationDataError(t) # "ok" THEN t
    ELSE [t EXCEPT !.simulationResult = SimulationData(t).result]

\* get simulationData: the object after the access (the write-through to the cache)
AfterSimulationData(t) ==
    IF SimulationDataError(t) # "ok" THEN t
    ELSE [t EXCEPT !.simulationResult = SimulationData(t).result,
                   !.simulationTransactionData = SimulationData(t).transactionData]

\* get isReadCall looking at the auth entries only
isReadCallIgnoringFootprint(t) == Len(SimulationData(t).result.auth) = 0

\* get isReadCall, when simulationData does not throw
isReadCall(t) ==
    LET authsCount == Len(SimulationData(t).result.auth)
        writeLength == SimulationData(t).transactionData.readWrite
    IN authsCount = 0 /\ writeLength = 0

\* ---------------------------------------------- AssembledTransaction: result
\* what a throw statement throws: an Error with a name and a message, or a
\* value without a toString (undefined, null)
ErrorOf(name, message) == [stringable |-> TRUE, name |-> name, message |-> message]

NotStringable == [stringable |-> FALSE]

\* nothing thrown
NoThrow == [stringable |-> FALSE, nothing |-> TRUE]

implementsToString(e) == e.stringable

\* Error.prototype.toString(): the name, then the message
ErrorToString(e) == <<e.name>> \o e.message

\* get simulationData: what it throws when SimulationDataError is not "ok"
SimulationDataThrown(t) ==
    IF SimulationDataError(t) = "NotYetSimulated"
    THEN ErrorOf("NotYetSimulated", <<"Transaction has not yet been simulated">>)
    ELSE IF SimulationDataError(t) = "SimulationFailed"
    THEN ErrorOf("Error", <<"Transaction simulation failed:">> \o t.simulation.error)
    ELSE IF SimulationDataError(t) = "ExpiredState"
    THEN ErrorOf("ExpiredState", <<"You need to restore some contract state", "{simulation}">>)
    ELSE ErrorOf("Error", <<"Expected an invocation simulation", "{simulation}">>)

IsNumeral(word) == \E i \in 1..Len(Numerals) : Numerals[i] = word

\* parseInt(numeral, 10)
parseInt(numeral) == (CHOOSE i \in 1..Len(Numerals) : Numerals[i] = numeral) - 1

\* errorMessage.match(contractErrorPattern): the positions where the pattern
\* /Error\(Contract, #(\d+)\)/ matches
ContractErrorMatches(text) ==
    {i \in 1..(Len(text) - 2) : /\ text[i] = "Error(Contract, #"
                                /\ IsNumeral(text[i + 1])
                                /\ text[i + 2] = ")"}

\* match[1] of the first match
ContractErrorGroup(text) ==
    text[(CHOOSE i \in ContractErrorMatches(text) :
             \A j \in ContractErrorMatches(text) : i <= j) + 1]

\* new Err(error)
Err(error) == [tag |-> "Err", error |-> error]

\* undefined, as parseError returns it
NoErr == [tag |-> "undefined"]

\* parseError with the pattern anchored at the start of the text
parseErrorAnchored(options, errorMessage) ==
    IF options.errorTypes = <<>> THEN NoErr
    ELSE IF 1 \notin ContractErrorMatches(errorMessage) THEN NoErr
    ELSE LET i == parseInt(ContractErrorGroup(errorMessage))
         IN IF i \notin DOMAIN options.errorTypes[1] THEN NoErr
            ELSE Err(options.errorTypes[1][i])

\* parseError answering an Err for every code, registered or not
parseErrorAnyCode(options, errorMessage) ==
    IF ContractErrorMatches(errorMessage) = {} THEN NoErr
    ELSE LET i == parseInt(ContractErrorGroup(errorMessage))
         IN IF options.errorTypes = <<>> THEN Err(NoErr)
            ELSE IF i \notin DOMAIN options.errorTypes[1] THEN Err(NoErr)
            ELSE Err(options.errorTypes[1][i])

\* parseError(errorMessage)
parseError(options, errorMessage) ==
    IF options.errorTypes = <<>> THEN NoErr
    ELSE IF ContractErrorMatches(errorMessage) = {} THEN NoErr
    ELSE LET i == parseInt(ContractErrorGroup(errorMessage))
         IN IF i \notin DOMAIN options.errorTypes[1] THEN NoErr
            ELSE Err(options.errorTypes[1][i])

\* funcResToNative on the return value of the simulation
Native(retval) == [native |-> retval]

\* what options.parseResultXdr does with the return value: it answers the
\* native value, or it throws
ParseOutcomes ==
    {NoThrow, NotStringable, ErrorOf("TypeError", <<"invalid type">>)}
        \cup {ErrorOf("Error", ContractErrorWords(Numerals[k + 1])) : k \in 1..2}

\* get result, with options.parseResultXdr behaving as `parse`: what was raised
\* inside the try (NoThrow if nothing), whether the getter returns, and the
\* value it returns or throws
result(t, parse) ==
    LET raised == IF SimulationDataError(t) # "ok" THEN SimulationDataThrown(t) ELSE parse
    IN IF raised = NoThrow
       THEN [raised |-> raised, returns |-> TRUE, value |-> Native(SimulationData(t).result.retval)]
       ELSE IF ~implementsToString(raised)
       THEN [raised |-> raised, returns |-> FALSE, value |-> raised]
       ELSE LET err == parseError(t.options, ErrorToString(raised))
            IN IF err # NoErr THEN [raised |-> raised, returns |-> TRUE, value |-> err]
               ELSE [raised |-> raised, returns |-> FALSE, value |-> raised]

\* ---------------------------------------------- AssembledTransaction: build
\* raw.build(): the transaction of the builder, without auth or soroban data
BuildRaw(raw) ==
    [source |-> raw.source, fee |-> raw.fee, maxTime |-> raw.maxTime, auth |-> <<>>,
     sorobanData |-> None, envSig |-> FALSE]

\* assembleTransaction(built, simulation).build(): the simulated resource fee,
\* soroban data and auth entries merged into the transaction
assembleTransaction(built, sim) ==
    [built EXCEPT !.fee = built.fee + sim.minResourceFee,
                  !.auth = IF Len(built.auth) > 0 THEN built.auth ELSE sim.result.auth,
                  !.sorobanData = sim.transactionData]

\* simulate() setting built only once the response is in
simulateBuildingAfterResponse(t, rpc) ==
    IF t.raw = None THEN [tx |-> t, err |-> "Error"]
    ELSE IF rpc = RpcRejected THEN [tx |-> t, err |-> "RpcError"]
    ELSE LET t2 == [t EXCEPT !.built = BuildRaw(t.raw), !.simulation = rpc]
         IN [tx |-> IF isSimulationSuccess(rpc)
                    THEN [t2 EXCEPT !.built = assembleTransaction(t2.built, rpc)]
                    ELSE t2,
             err |-> "ok"]

\* simulate() sending the built transaction when there is no raw builder
simulateBuiltWithoutRaw(t, rpc) ==
    LET t1 == IF t.raw = None THEN t ELSE [t EXCEPT !.built = BuildRaw(t.raw)]
    IN IF t1.built = None THEN [tx |-> t, err |-> "Error"]
       ELSE IF rpc = RpcRejected THEN [tx |-> t1, err |-> "RpcError"]
       ELSE LET t2 == [t1 EXCEPT !.simulation = rpc]
            IN [tx |-> IF isSimulationSuccess(rpc)
                       THEN [t2 EXCEPT !.built = assembleTransaction(t1.built, rpc)]
                       ELSE t2,
                err |-> "ok"]

\* simulate(), with the outcome rpc of its simulateTransaction request
simulate(t, rpc) ==
    IF t.raw = None THEN [tx |-> t, err |-> "Error"]
    ELSE LET t1 == [t EXCEPT !.built = BuildRaw(t.raw)]
         IN IF rpc = RpcRejected THEN [tx |-> t1, err |-> "RpcError"]
            ELSE LET t2 == [t1 EXCEPT !.simulation = rpc]
                 IN [tx |-> IF isSimulationSuccess(rpc)
                            THEN [t2 EXCEPT !.built = assembleTransaction(t1.built, rpc)]
                            ELSE t2,
                     err |-> "ok"]

\* build() running simulate only when options.simulate is given as true
buildSimulatingOnRequest(options, simulateOpt, accountOk, rpc, time) ==
    LET t0 == NewAssembled(options)
        hasAccount == options.publicKey # Undef
        t1 == [t0 EXCEPT !.raw = [source |-> IF hasAccount THEN options.publicKey ELSE NULL_ACCOUNT,
                                  sequence |-> IF hasAccount THEN 1 ELSE 0,
                                  fee |-> OrElse(options.fee, BASE_FEE),
                                  maxTime |-> time + OrElse(options.timeoutInSeconds, DEFAULT_TIMEOUT)]]
        getAccount == IF hasAccount THEN <<"getAccount">> ELSE <<>>
    IN IF hasAccount /\ ~accountOk
       THEN [tx |-> None, err |-> "RpcError", requests |-> getAccount]
       ELSE IF OrElse(simulateOpt, FALSE)
            THEN LET r == simulate(t1, rpc)
                 IN [tx |-> IF r.err = "ok" THEN r.tx ELSE None, err |-> r.err,
                     requests |-> getAccount \o <<"simulateTransaction">>]
            ELSE [tx |-> t1, err |-> "ok", requests |-> getAccount]

\* AssembledTransaction.build(options) at time `time`: the account is fetched when
\* publicKey is set (accountOk: getAccount answers; its sequence is then 1),
\* raw is set up, and simulate runs unless options.simulate is false.  requests
\* are the requests made to the RPC server, in order.
build(options, simulateOpt, accountOk, rpc, time) ==
    LET t0 == NewAssembled(options)
        hasAccount == options.publicKey # Undef
        t1 == [t0 EXCEPT !.raw = [source |-> IF hasAccount THEN options.publicKey ELSE NULL_ACCOUNT,
                                  sequence |-> IF hasAccount THEN 1 ELSE 0,
                                  fee |-> OrElse(options.fee, BASE_FEE),
                                  maxTime |-> time + OrElse(options.timeoutInSeconds, DEFAULT_TIMEOUT)]]
        getAccount == IF hasAccount THEN <<"getAccount">> ELSE <<>>
    IN IF hasAccount /\ ~accountOk
       THEN [tx |-> None, err |-> "RpcError", requests |-> getAccount]
       ELSE IF OrElse(simulateOpt, TRUE)
            THEN LET r == simulate(t1, rpc)
                 IN [tx |-> IF r.err = "ok" THEN r.tx ELSE None, err |-> r.err,
                     requests |-> getAccount \o <<"simulateTransaction">>]
            ELSE [tx |-> t1, err |-> "ok", requests |-> getAccount]

\* ----------------------------------------------- AssembledTransaction: sign
\* a default parameter: the argument, or the option when the argument is undefined
ArgOr(arg, option) == IF arg # Undef THEN arg ELSE option

\* the checks of sign() without the one for missing co-signers
SignErrorWithoutCoSigners(t, force, signTransaction) ==
    IF t.built = None THEN "Error"
    ELSE IF ~force /\ SimulationDataError(t) # "ok" THEN SimulationDataError(t)
    ELSE IF ~force /\ isReadCall(t) THEN "NoSignatureNeeded"
    ELSE IF signTransaction = Undef THEN "NoSigner"
    ELSE "ok"

\* the checks of sign() with the read-call check not looking at force
SignErrorIgnoringForce(t, force, signTransaction) ==
    IF t.built = None THEN "Error"
    ELSE IF SimulationDataError(t) # "ok" THEN SimulationDataError(t)
    ELSE IF isReadCall(t) THEN "NoSignatureNeeded"
    ELSE IF signTransaction = Undef THEN "NoSigner"
    ELSE IF Len(needsNonInvokerSigningBy(t.built, FALSE)) # 0 THEN "NeedsMoreSignatures"
    ELSE "ok"

\* the checks of sign() with the signer looked for before the read-call check
SignErrorSignerFirst(t, force, signTransaction) ==
    IF t.built = None THEN "Error"
    ELSE IF signTransaction = Undef THEN "NoSigner"
    ELSE IF ~force /\ SimulationDataError(t) # "ok" THEN SimulationDataError(t)
    ELSE IF ~force /\ isReadCall(t) THEN "NoSignatureNeeded"
    ELSE IF Len(needsNonInvokerSigningBy(t.built, FALSE)) # 0 THEN "NeedsMoreSignatures"
    ELSE "ok"

\* the precondition checks of sign(), in program order: the error thrown, or "ok".
\* isReadCall reads simulationData and so can throw its error.
SignError(t, force, signTransaction) ==
    IF t.built = None THEN "Error"
    ELSE IF ~force /\ SimulationDataError(t) # "ok" THEN SimulationDataError(t)
    ELSE IF ~force /\ isReadCall(t) THEN "NoSignatureNeeded"
    ELSE IF signTransaction = Undef THEN "NoSigner"
    ELSE IF Len(needsNonInvokerSigningBy(t.built, FALSE)) # 0 THEN "NeedsMoreSignatures"
    ELSE "ok"

\* TransactionBuilder.cloneFrom(built, {fee, timebounds: undefined, sorobanData})
\* .setTimeout(timeoutInSeconds).build() at time `time`: an unsigned copy with
\* the operations and fee of built and a fresh upper time bound
RefreshEnvelope(built, sorobanData, timeoutInSeconds, time) ==
    [built EXCEPT !.maxTime = time + timeoutInSeconds,
                  !.sorobanData = sorobanData,
                  !.envSig = FALSE]

\* the wallet's signTransaction: the envelope it is handed, signed
WalletSignTransaction(xdr) == TxToXDR([TxFromXDR(xdr) EXCEPT !.envSig = TRUE])

\* sign({force, signTransaction}) at time `time`; signerOk: the callback answers
\* a signed envelope (otherwise it rejects).  The result names the object after
\* the call, the error thrown ("ok" if none) and the envelope handed to the signer
\* (<<>> when the signer is not invoked).
sign(t, force, signTransactionArg, signerOk, time) ==
    LET signTransaction == ArgOr(signTransactionArg, t.options.signTransaction)
        e == SignError(t, force, signTransaction)
        \* isReadCall, when it was evaluated, wrote simulationData through
        t1 == IF t.built # None /\ ~force THEN AfterSimulationData(t) ELSE t
    IN IF e # "ok" THEN [tx |-> t1, err |-> e, envelope |-> <<>>]
       ELSE IF SimulationDataError(t1) # "ok"
            THEN [tx |-> t1, err |-> SimulationDataError(t1), envelope |-> <<>>]
       ELSE LET t2 == AfterSimulationData(t1)
                t3 == [t2 EXCEPT !.built =
                          RefreshEnvelope(t2.built, SimulationData(t2).transactionData,
                                          OrElse(t.options.timeoutInSeconds, DEFAULT_TIMEOUT), time)]
                envelope == TxToXDR(t3.built)
            IN IF ~signerOk THEN [tx |-> t3, err |-> "SignerError", envelope |-> envelope]
               ELSE [tx |-> [t3 EXCEPT !.signed = TxFromXDR(WalletSignTransaction(envelope))],
                     err |-> "ok", envelope |-> envelope]

\* ------------------------------------------------ AssembledTransaction: send
\* The values send() passes to SentTransaction.init, by what they are.
AsOptions(options) == [is |-> "options", v |-> options]

AsTx(tx) == [is |-> "Tx", v |-> tx]

\* new SentTransaction(signTransaction, assembled): throws when signTransaction
\* is falsy, and reads assembled.options.rpcUrl, a TypeError when the value it
\* is given as `assembled` has no options
SentTransactionConstructor(signTransaction, assembled) ==
    IF signTransaction.is = "undefined" THEN "Error"
    ELSE IF assembled.is # "AssembledTransaction" THEN "TypeError"
    ELSE "ok"

\* SentTransaction.init(signTransaction, assembled): the constructor, then the
\* submission; with the values send() passes the constructor throws
SentTransactionInit(signTransaction, assembled) ==
    SentTransactionConstructor(signTransaction, assembled)

\* send() without its check of signed
sendWithoutCheck(t) ==
    [tx |-> t, err |-> SentTransactionInit(AsOptions(t.options), AsTx(t.signed)),
     envelope |-> <<>>, init |-> <<AsOptions(t.options), AsTx(t.signed)>>]

\* send(): requires signed, then SentTransaction.init(this.options, this.signed).
\* `init` is what SentTransaction.init was handed (<<>> when it is not called).
send(t) ==
    IF t.signed = None THEN [tx |-> t, err |-> "NotSigned", envelope |-> <<>>, init |-> <<>>]
    ELSE [tx |-> t, err |-> SentTransactionInit(AsOptions(t.options), AsTx(t.signed)),
          envelope |-> <<>>, init |-> <<AsOptions(t.options), AsTx(t.signed)>>]

\* signAndSend(): whether sign runs first
SignAndSendSigns(t) == t.signed = None

\* signAndSend({force, signTransaction})
signAndSend(t, force, signTransactionArg, signerOk, time) ==
    IF SignAndSendSigns(t)
    THEN LET r == sign(t, force, signTransactionArg, signerOk, time)
         IN IF r.err # "ok" THEN [tx |-> r.tx, err |-> r.err, envelope |-> r.envelope, init |-> <<>>]
            ELSE [send(r.tx) EXCEPT !.envelope = r.envelope]
    ELSE send(t)

\* -------------------------------------- AssembledTransaction: signAuthEntries
\* `!needsNonInvokerSigningBy` on the list returned: an array is never falsy
IsFalsy(list) == FALSE

\* the loop of signAuthEntries taking every entry with address credentials
IsEntryOfAnyAccount(entry, publicKey) == entry.cred = "address"

\* the entries the loop of signAuthEntries hands to authorizeEntry: address
\* credentials of the account publicKey
IsEntryOf(entry, publicKey) == entry.cred = "address" /\ entry.acct = publicKey

\* how many entries of publicKey the list holds up to index i
RECURSIVE RankOf(_, _, _)
RankOf(auth, publicKey, i) ==
    IF i = 0 THEN 0
    ELSE RankOf(auth, publicKey, i - 1) + (IF IsEntryOf(auth[i], publicKey) THEN 1 ELSE 0)

\* authorizeEntry(entry, signer, expiration): the entry with its signature slot
\* filled by the account's signature and stamped with the expiration
authorizeEntry(entry, expiration) == SignedEntryOf(entry, expiration)

\* the auth list after the loop has replaced, in place and in index order, the
\* entries of publicKey; the callback fails at the failAt-th such entry (0: never)
AuthorizedEntries(auth, publicKey, expiration, failAt) ==
    [i \in 1..Len(auth) |->
        IF IsEntryOf(auth[i], publicKey)
           /\ (failAt = 0 \/ RankOf(auth, publicKey, i) < failAt)
        THEN authorizeEntry(auth[i], expiration)
        ELSE auth[i]]

\* the precondition checks of signAuthEntries with the callback looked for
\* before the public key
SignAuthEntriesErrorSignerFirst(t, signAuthEntry, publicKey) ==
    IF t.built = None THEN "Error"
    ELSE LET needs == needsNonInvokerSigningBy(t.built, FALSE)
         IN IF IsFalsy(needs) THEN "NoUnsignedNonInvokerAuthEntries"
            ELSE IF signAuthEntry = Undef THEN "NoSigner"
            ELSE IF ~(\E i \in 1..Len(needs) : needs[i] = publicKey) THEN "NoSignatureNeeded"
            ELSE "ok"

\* the precondition checks of signAuthEntries without the one of the public key
SignAuthEntriesErrorAnyPublicKey(t, signAuthEntry, publicKey) ==
    IF t.built = None THEN "Error"
    ELSE IF IsFalsy(needsNonInvokerSigningBy(t.built, FALSE)) THEN "NoUnsignedNonInvokerAuthEntries"
    ELSE IF signAuthEntry = Undef THEN "NoSigner"
    ELSE "ok"

\* the precondition checks of signAuthEntries, in program order
SignAuthEntriesError(t, signAuthEntry, publicKey) ==
    IF t.built = None THEN "Error"
    ELSE LET needs == needsNonInvokerSigningBy(t.built, FALSE)
         IN IF IsFalsy(needs) THEN "NoUnsignedNonInvokerAuthEntries"
            ELSE IF ~(\E i \in 1..Len(needs) : needs[i] = publicKey) THEN "NoSignatureNeeded"
            ELSE IF signAuthEntry = Undef THEN "NoSigner"
            ELSE "ok"

\* signAuthEntries forgetting the simulation once it has signed
signAuthEntriesDroppingSimulation(t, expirationArg, signAuthEntryArg, publicKeyArg, liveUntil, expirationOk, failAt) ==
    LET signAuthEntry == ArgOr(signAuthEntryArg, t.options.signAuthEntry)
        publicKey == ArgOr(publicKeyArg, t.options.publicKey)
        e == SignAuthEntriesError(t, signAuthEntry, publicKey)
    IN IF e # "ok" THEN [tx |-> t, err |-> e]
       ELSE LET auth == t.built.auth
                count == RankOf(auth, publicKey, Len(auth))
                expiration == OrElse(expirationArg, liveUntil)
            IN IF count > 0 /\ expirationArg = <<>> /\ ~expirationOk
               THEN [tx |-> t, err |-> "RpcError"]
               ELSE [tx |-> [t EXCEPT !.built.auth =
                                AuthorizedEntries(auth, publicKey, expiration, failAt),
                                      !.simulation = None,
                                      !.simulationResult = None,
                                      !.simulationTransactionData = None],
                     err |-> IF failAt # 0 /\ failAt <= count THEN "SignerError" ELSE "ok"]

\* signAuthEntries({expiration, signAuthEntry, publicKey}).  expirationArg is <<>>
\* for the default, getStorageExpiration(), which answers liveUntil or, when
\* expirationOk is false, rejects; the rejection surfaces at the first `await
\* expiration`, before any entry is replaced.
signAuthEntries(t, expirationArg, signAuthEntryArg, publicKeyArg, liveUntil, expirationOk, failAt) ==
    LET signAuthEntry == ArgOr(signAuthEntryArg, t.options.signAuthEntry)
        publicKey == ArgOr(publicKeyArg, t.options.publicKey)
        e == SignAuthEntriesError(t, signAuthEntry, publicKey)
    IN IF e # "ok" THEN [tx |-> t, err |-> e]
       ELSE LET auth == t.built.auth
                count == RankOf(auth, publicKey, Len(auth))
                expiration == OrElse(expirationArg, liveUntil)
            IN IF count > 0 /\ expirationArg = <<>> /\ ~expirationOk
               THEN [tx |-> t, err |-> "RpcError"]
               ELSE [tx |-> [t EXCEPT !.built.auth =
                                AuthorizedEntries(auth, publicKey, expiration, failAt)],
                     err |-> IF failAt # 0 /\ failAt <= count THEN "SignerError" ELSE "ok"]

\* ------------------------------------------ AssembledTransaction: toJSON / fromJSON
\* toJSON() serialising the auth entries of the simulation in place of built's
toJSONWithoutSignatures(t) ==
    [method |-> t.options.method,
     tx |-> TxToXDR([t.built EXCEPT !.auth = IF Len(t.built.auth) = 0 THEN t.built.auth
                                             ELSE SimulationData(t).result.auth]),
     simulationResult |->
        [auth |-> [i \in 1..Len(SimulationData(t).result.auth) |->
                      EntryToXDR(SimulationData(t).result.auth[i])],
         retval |-> ScValToXDR(SimulationData(t).result.retval)],
     simulationTransactionData |-> SorobanDataToXDR(SimulationData(t).transactionData)]

\* toJSON(): the JSON text, as the object it parses to.  It reads simulationData.
toJSON(t) ==
    [method |-> t.options.method,
     tx |-> TxToXDR(t.built),
     simulationResult |->
        [auth |-> [i \in 1..Len(SimulationData(t).result.auth) |->
                      EntryToXDR(SimulationData(t).result.auth[i])],
         retval |-> ScValToXDR(SimulationData(t).result.retval)],
     simulationTransactionData |-> SorobanDataToXDR(SimulationData(t).transactionData)]

\* AssembledTransaction.fromJSON(options, {tx, simulationResult, simulationTransactionData})
fromJSON(options, json) ==
    [NewAssembled(options) EXCEPT
        !.built = TxFromXDR(json.tx),
        !.simulationResult =
            [auth |-> [i \in 1..Len(json.simulationResult.auth) |->
                          EntryFromXDR(json.simulationResult.auth[i])],
             retval |-> ScValFromXDR(json.simulationResult.retval)],
        !.simulationTransactionData = SorobanDataFromXDR(json.simulationTransactionData)]

\* ContractClient.txFromJSON(json) on a client with the options clientOptions
txFromJSON(clientOptions, json) == fromJSON([clientOptions EXCEPT !.method = json.method], json)

\* -------------------------------------------------------------- SentTransaction
\* The values a caller passes to SentTransaction.init itself.
AsFunction(callback) ==
    [is |-> IF callback = Undef THEN "undefined" ELSE "function", v |-> callback]

AsAssembled(t) == [is |-> "AssembledTransaction", v |-> t]

\* sendTransaction answers with a status and the hash of the transaction
SendTransactionResponses ==
    {[status |-> s, hash |-> "hash"] : s \in {"PENDING", "ERROR", "TRY_AGAIN_LATER"}}

\* getTransaction answers with a status
GetTransactionResponses == {[status |-> s] : s \in {"NOT_FOUND", "SUCCESS", "FAILED"}}

\* either request failing
RequestRejected == [status |-> "rejected"]

\* new SentTransaction(signTransaction, assembled): no field but the two
\* arguments is set.  pc, timeoutInSeconds, attempts and waited are where send
\* is and the locals of send and withExponentialBackoff.
NewSent(signTransaction, assembled) ==
    [signTransaction |-> signTransaction,
     signed |-> None,
     sendTransactionResponse |-> None,
     getTransactionResponseAll |-> <<>>,
     getTransactionResponse |-> None,
     pc |-> "sending",
     timeoutInSeconds |-> OrElse(assembled.options.timeoutInSeconds, DEFAULT_TIMEOUT),
     attempts |-> <<>>,
     waited |-> 0]

\* send() submitting whatever it is handed whatever sendTransaction answers
SentSubmitIgnoringStatus(s, response) ==
    IF response = RequestRejected
    THEN [sent |-> [s EXCEPT !.pc = "done"], err |-> "RpcError"]
    ELSE [sent |-> [s EXCEPT !.sendTransactionResponse = response, !.pc = "polling"],
          err |-> "pending"]

\* send(), from the sendTransaction request to the start of the poll: the
\* response is stored, and anything but PENDING throws SendFailed
SentSubmit(s, response) ==
    IF response = RequestRejected
    THEN [sent |-> [s EXCEPT !.pc = "done"], err |-> "RpcError"]
    ELSE IF response.status # "PENDING"
    THEN [sent |-> [s EXCEPT !.sendTransactionResponse = response, !.pc = "done"],
          err |-> "SendFailed"]
    ELSE [sent |-> [s EXCEPT !.sendTransactionResponse = response, !.pc = "polling"],
          err |-> "pending"]

\* send(updateTimeout) at time `time`, up to the start of the poll: with
\* updateTimeout the built of the AssembledTransaction is cloned with a fresh
\* time bound and the soroban data of simulationData; built is handed to the
\* signTransaction callback; what the callback answers becomes signed and is
\* submitted.  The result names the SentTransaction and the AssembledTransaction
\* after the call, the error thrown ("pending" when the poll starts) and the
\* envelope handed to the signer (<<>> when the signer is not invoked).
SentSend(s, t, updateTimeout, signerOk, response, time) ==
    IF t.built = None
    THEN [sent |-> [s EXCEPT !.pc = "done"], tx |-> t, err |-> "TypeError", envelope |-> <<>>]
    ELSE IF updateTimeout /\ SimulationDataError(t) # "ok"
    THEN [sent |-> [s EXCEPT !.pc = "done"], tx |-> t, err |-> SimulationDataError(t),
          envelope |-> <<>>]
    ELSE LET t1 == IF updateTimeout
                   THEN [AfterSimulationData(t) EXCEPT !.built =
                            RefreshEnvelope(t.built,
                                SorobanDataFromXDR(SorobanDataToXDR(SimulationData(t).transactionData)),
                                s.timeoutInSeconds, time)]
                   ELSE t
             envelope == TxToXDR(t1.built)
         IN IF ~signerOk
            THEN [sent |-> [s EXCEPT !.pc = "done"], tx |-> t1, err |-> "SignerError",
                  envelope |-> envelope]
            ELSE LET r == SentSubmit([s EXCEPT !.signed = TxFromXDR(WalletSignTransaction(envelope))],
                                     response)
                 IN [sent |-> r.sent, tx |-> t1, err |-> r.err, envelope |-> envelope]

\* SentTransaction.init(signTransaction, assembled, updateTimeout) called with a
\* callback (or none) and an AssembledTransaction: the constructor, then send
SentInit(signTransaction, t, updateTimeout, signerOk, response, time) ==
    LET e == SentTransactionConstructor(AsFunction(signTransaction), AsAssembled(t))
    IN IF e # "ok" THEN [sent |-> None, tx |-> t, err |-> e, envelope |-> <<>>]
       ELSE SentSend(NewSent(signTransaction, t), t, updateTimeout, signerOk, response, time)

Min(a, b) == IF a < b THEN a ELSE b

\* withExponentialBackoff sleeping 2^i seconds after attempt i whatever is left
BackoffSleepUnclamped(i, remaining) == 2 ^ i

\* withExponentialBackoff: the sleep after attempt i (the first is attempt 0)
\* with `remaining` seconds left until the deadline
BackoffSleep(i, remaining) == Min(2 ^ i, remaining)

\* withExponentialBackoff: whether the loop goes on after an attempt
BackoffKeepsWaiting(response, waited, timeoutInSeconds) ==
    response.status = "NOT_FOUND" /\ waited < timeoutInSeconds

\* the poll of send() run against DEFAULT_TIMEOUT whatever timeoutInSeconds is
SentPollWithDefaultTimeout(s, response) ==
    IF response = RequestRejected
    THEN [sent |-> [s EXCEPT !.pc = "done"], err |-> "RpcError"]
    ELSE LET attempts == Append(s.attempts, response)
         IN IF BackoffKeepsWaiting(response, s.waited, DEFAULT_TIMEOUT)
            THEN [sent |-> [s EXCEPT !.attempts = attempts,
                                     !.waited = s.waited + BackoffSleep(Len(s.attempts),
                                                   DEFAULT_TIMEOUT - s.waited)],
                  err |-> "pending"]
            ELSE [sent |-> [s EXCEPT !.attempts = attempts,
                                     !.getTransactionResponseAll = <<attempts>>,
                                     !.getTransactionResponse = attempts[Len(attempts)],
                                     !.pc = "done"],
                  err |-> IF attempts[Len(attempts)].status = "NOT_FOUND"
                          THEN "TransactionStillPending" ELSE "ok"]

\* the poll of send() returning whatever the last response is
SentPollReturningAnyway(s, response) ==
    IF response = RequestRejected
    THEN [sent |-> [s EXCEPT !.pc = "done"], err |-> "RpcError"]
    ELSE LET attempts == Append(s.attempts, response)
         IN IF BackoffKeepsWaiting(response, s.waited, s.timeoutInSeconds)
            THEN [sent |-> [s EXCEPT !.attempts = attempts,
                                     !.waited = s.waited + BackoffSleep(Len(s.attempts),
                                                   s.timeoutInSeconds - s.waited)],
                  err |-> "pending"]
            ELSE [sent |-> [s EXCEPT !.attempts = attempts,
                                     !.getTransactionResponseAll = <<attempts>>,
                                     !.getTransactionResponse = attempts[Len(attempts)],
                                     !.pc = "done"],
                  err |-> "ok"]

\* the poll of send() taking the first response for getTransactionResponse
SentPollFirstResponse(s, response) ==
    IF response = RequestRejected
    THEN [sent |-> [s EXCEPT !.pc = "done"], err |-> "RpcError"]
    ELSE LET attempts == Append(s.attempts, response)
         IN IF BackoffKeepsWaiting(response, s.waited, s.timeoutInSeconds)
            THEN [sent |-> [s EXCEPT !.attempts = attempts,
                                     !.waited = s.waited + BackoffSleep(Len(s.attempts),
                                                   s.timeoutInSeconds - s.waited)],
                  err |-> "pending"]
            ELSE [sent |-> [s EXCEPT !.attempts = attempts,
                                     !.getTransactionResponseAll = <<attempts>>,
                                     !.getTransactionResponse = attempts[1],
                                     !.pc = "done"],
                  err |-> IF attempts[Len(attempts)].status = "NOT_FOUND"
                          THEN "TransactionStillPending" ELSE "ok"]

\* one attempt of the poll of send(): getTransaction answers `response`.  The
\* attempt is recorded; while the status is NOT_FOUND and the deadline has not
\* passed the loop sleeps and goes on; otherwise send() stores the attempts and
\* the last of them, and throws TransactionStillPending if that is NOT_FOUND.
SentPoll(s, response) ==
    IF response = RequestRejected
    THEN [sent |-> [s EXCEPT !.pc = "done"], err |-> "RpcError"]
    ELSE LET attempts == Append(s.attempts, response)
         IN IF BackoffKeepsWaiting(response, s.waited, s.timeoutInSeconds)
            THEN [sent |-> [s EXCEPT !.attempts = attempts,
                                     !.waited = s.waited + BackoffSleep(Len(s.attempts),
                                                   s.timeoutInSeconds - s.waited)],
                  err |-> "pending"]
            ELSE [sent |-> [s EXCEPT !.attempts = attempts,
                                     !.getTransactionResponseAll = <<attempts>>,
                                     !.getTransactionResponse = attempts[Len(attempts)],
                                     !.pc = "done"],
                  err |-> IF attempts[Len(attempts)].status = "NOT_FOUND"
                          THEN "TransactionStillPending" ELSE "ok"]

\* sendTransaction answers; an ERROR may carry the decoded result of the
\* transaction that was refused
SendTransactionResults ==
    SendTransactionResponses
        \cup {[status |-> "ERROR", hash |-> "hash", errorResult |-> "txBadSeq"]}

\* getTransaction answers; a SUCCESS may carry the value the call returned
GetTransactionResults ==
    GetTransactionResponses
        \cup {[status |-> "SUCCESS", returnValue |-> v] : v \in 1..2}

\* "returnValue" in response
HasReturnValue(response) == "returnValue" \in DOMAIN response

\* response.errorResult?.result(), as a condition
HasErrorResult(response) == "errorResult" \in DOMAIN response

TransactionFailed == ErrorOf("Error", <<"Transaction failed! Cannot parse result.">>)

SendFailed(response) ==
    ErrorOf("SendFailed", <<"attempting to send the transaction failed", response.errorResult>>)

SendResultOnly == ErrorOf("SendResultOnly", <<"sent to the network, but not yet awaited">>)

\* the last throw of get result: the message holds JSON.stringify(assembled),
\* which calls assembled.toJSON(), which reads simulationData
SendingFailed(t) ==
    IF SimulationDataError(t) # "ok" THEN SimulationDataThrown(t)
    ELSE ErrorOf("Error", <<"Sending transaction failed:", toJSON(t)>>)

\* get result looking at sendTransactionResponse before getTransactionResponse
SentResultSendFirst(s, t, parse) ==
    IF s.sendTransactionResponse # None
    THEN [returns |-> FALSE, tx |-> t,
          value |-> IF HasErrorResult(s.sendTransactionResponse)
                    THEN SendFailed(s.sendTransactionResponse) ELSE SendResultOnly]
    ELSE IF s.getTransactionResponse # None
    THEN IF ~HasReturnValue(s.getTransactionResponse)
         THEN [returns |-> FALSE, tx |-> t, value |-> TransactionFailed]
         ELSE IF parse = NoThrow
         THEN [returns |-> TRUE, tx |-> t,
               value |-> Native(s.getTransactionResponse.returnValue)]
         ELSE [returns |-> FALSE, tx |-> t, value |-> parse]
    ELSE [returns |-> FALSE, tx |-> AfterSimulationData(t), value |-> SendingFailed(t)]

\* get result of the SentTransaction s made with the AssembledTransaction t,
\* with assembled.options.parseResultXdr behaving as `parse`: whether the getter
\* returns, the value it returns or throws, and t after the access
SentResult(s, t, parse) ==
    IF s.getTransactionResponse # None
    THEN IF ~HasReturnValue(s.getTransactionResponse)
         THEN [returns |-> FALSE, tx |-> t, value |-> TransactionFailed]
         ELSE IF parse = NoThrow
         THEN [returns |-> TRUE, tx |-> t,
               value |-> Native(s.getTransactionResponse.returnValue)]
         ELSE [returns |-> FALSE, tx |-> t, value |-> parse]
    ELSE IF s.sendTransactionResponse # None
    THEN [returns |-> FALSE, tx |-> t,
          value |-> IF HasErrorResult(s.sendTransactionResponse)
                    THEN SendFailed(s.sendTransactionResponse) ELSE SendResultOnly]
    ELSE [returns |-> FALSE, tx |-> AfterSimulationData(t), value |-> SendingFailed(t)]

\* ------------------------------------------------------------- ContractClient
\* A ContractSpec as its funcs(): each function has a name and the names of its
\* inputs in order.
SwapFunc == [name |-> "swap", inputs |-> <<"a", "b">>]

TotalFunc == [name |-> "total", inputs |-> <<>>]

ContractSpecs == {<<SwapFunc, TotalFunc>>, <<TotalFunc>>}

\* the names of spec.funcs()
FuncNames(spec) == {spec[i].name : i \in 1..Len(spec)}

\* spec.getFunc(name)
getFunc(spec, name) == spec[CHOOSE i \in 1..Len(spec) : spec[i].name = name]

\* the inverse of funcResToNative on one value
nativeToScVal(n) == n.native

\* spec.funcArgsToScVals(name, args): the values of the named args, in the
\* order of the inputs of the function
funcArgsToScVals(spec, name, args) ==
    [i \in 1..Len(getFunc(spec, name).inputs) |->
        nativeToScVal(args[getFunc(spec, name).inputs[i]])]

\* the args a caller passes to swap
ArgRecords == {[a |-> Native(x), b |-> Native(y)] : x \in 1..2, y \in 1..2}

\* the keys of MethodOptions; an object holds each as <<>> (absent) or <<v>>
MethodKeys == {"fee", "timeoutInSeconds", "simulate"}

NoMethodOptions == [k \in MethodKeys |-> <<>>]

\* the MethodOptions part of an object, nothing for undefined
MethodOptionsOf(x) == IF x = None THEN NoMethodOptions ELSE [k \in MethodKeys |-> x[k]]

\* {...a, ...b} on the MethodOptions keys: b wins where it has the key
Spread(a, b) == [k \in MethodKeys |-> IF b[k] # <<>> THEN b[k] ELSE a[k]]

\* the methodOptions a caller passes: none, or any of the three keys
MethodOptionsGiven ==
    {None} \cup {[fee |-> f, timeoutInSeconds |-> t, simulate |-> sim] :
                    f \in {<<>>, <<200>>}, t \in Timeouts, sim \in {<<>>, <<FALSE>>}}

\* the options a client is made with: its account and endpoint, and possibly
\* values under the keys of MethodOptions
ClientOptionsOf(rpcUrl, f, t, sim) ==
    [rpcUrl |-> rpcUrl, contractId |-> "contract", publicKey |-> Invoker,
     fee |-> f, timeoutInSeconds |-> t, simulate |-> sim]

ClientOptionsGiven ==
    {ClientOptionsOf("rpc", f, t, sim) :
        f \in {<<>>, <<300>>}, t \in {<<>>, <<7>>}, sim \in {<<>>, <<TRUE>>}}

\* new ContractClient(spec, options), of contract/ or of contract_client/: one
\* method per function of the spec
NewClient(copy, spec, options) ==
    [copy |-> copy, spec |-> spec, options |-> options, methods |-> FuncNames(spec)]

\* what a method hands to AssembledTransaction.build
BuildCallOf(client, name, args, merged) ==
    [method |-> name, args |-> args, publicKey |-> client.options.publicKey,
     fee |-> merged.fee, timeoutInSeconds |-> merged.timeoutInSeconds,
     simulate |-> merged.simulate, errorTypes |-> <<ErrorCases>>]

\* contract/: the closure assembleTransaction(args, methodOptions) of a method
ClientAssembleTransaction(client, name, args, methodOptions) ==
    BuildCallOf(client, name,
                IF args = None THEN <<>> ELSE <<funcArgsToScVals(client.spec, name, args)>>,
                Spread(MethodOptionsOf(client.options), MethodOptionsOf(methodOptions)))

\* contract/: client[name](a1, a2).  A function without inputs is bound to
\* (opts) => assembleTransaction(undefined, opts), any other to assembleTransaction.
ClientMethod(client, name, a1, a2) ==
    IF Len(getFunc(client.spec, name).inputs) = 0
    THEN ClientAssembleTransaction(client, name, None, a1)
    ELSE ClientAssembleTransaction(client, name, a1, a2)

\* contract_client/: client[name](args, options)
LegacyClientMethod(client, name, args, options) ==
    BuildCallOf(client, name, <<funcArgsToScVals(client.spec, name, args)>>,
                Spread(MethodOptionsOf(options), MethodOptionsOf(client.options)))

\* client[name](a1, a2) of either class
CallMethod(client, name, a1, a2) ==
    IF client.copy = "contract" THEN ClientMethod(client, name, a1, a2)
    ELSE LegacyClientMethod(client, name, a1, a2)

\* AssembledTransaction.build(call)
BuildCall(call, accountOk, rpc, time) ==
    build([OptionsOf(call.publicKey, call.timeoutInSeconds) EXCEPT
              !.method = call.method, !.fee = call.fee],
          call.simulate, accountOk, rpc, time)

\* options.args ?? []
BuiltArgs(call) == OrElse(call.args, <<>>)

\* getLedgerEntries finds the contract instance, which names its wasm by hash
ContractDataEntries == {None, [wasmHash |-> "hash"]}

\* getLedgerEntries finds the wasm code; it has a contractspecv0 section or none
WasmCodeEntries ==
    {None} \cup {[contractspecv0 |-> sections] :
                    sections \in {<<>>} \cup {<<spec>> : spec \in ContractSpecs}}

NotFound(message) == [code |-> 404, message |-> message]

\* ContractClient.fromWasm(options, wasm)
fromWasm(copy, options, wasm) ==
    IF wasm.contractspecv0 = <<>>
    THEN [client |-> None, err |-> "rejected",
          value |-> <<NotFound("Could not obtain contract spec from wasm")>>]
    ELSE [client |-> NewClient(copy, wasm.contractspecv0[1], options), err |-> "ok",
          value |-> <<>>]

\* ContractClient.from(options), the two ledger lookups answering contractData
\* and wasmCode: the client, or what the promise is rejected with
from(copy, options, contractData, wasmCode) ==
    IF options.rpcUrl = Undef \/ options.contractId = Undef
    THEN [client |-> None, err |-> "TypeError", value |-> <<>>]
    ELSE IF contractData = None
    THEN [client |-> None, err |-> "rejected",
          value |-> <<NotFound("Could not obtain contract from server")>>]
    \* responseWasm.entries[0].val is read without a test
    ELSE IF wasmCode = None
    THEN [client |-> None, err |-> "TypeError", value |-> <<>>]
    ELSE fromWasm(copy, options, wasmCode)

\* -------------------------------------------------------------------- state
VARIABLES
    tx,            \* the AssembledTransaction followed, None before the first build
    json,          \* the JSON text in flight between toJSON and fromJSON, or None
    now,           \* the clock, in seconds
    out,           \* the last call and what it did
    simStarted,    \* history: simulate() calls on the transaction that reached raw.build()
    simCompleted,  \* history: one of them got a response from simulateTransaction
    cosigned,      \* history: the accounts whose signAuthEntries completed on the current built
    builtAtSign,   \* history: built as it was when sign() set signed, or None
    sent,          \* the SentTransaction last created by SentTransaction.init, or None
    client         \* the ContractClient last created, or None

vars == <<tx, json, now, out, simStarted, simCompleted, cosigned, builtAtSign, sent, client>>

\* everything but out
object == <<tx, json, now, simStarted, simCompleted, cosigned, builtAtSign, sent, client>>

\* what the last call did: its name, the error it threw ("ok" if none), the
\* envelope it handed to the signer and the arguments it handed to
\* SentTransaction.init (<<>> when it did not), the list it returned, and
\* whether it left everything as it was
Outcome(op, err, envelope) ==
    [op |-> op, err |-> err, envelope |-> envelope, init |-> <<>>, value |-> <<>>,
     unchanged |-> FALSE]

\* the outcome of a step, once the step has set the other variables
Done(op, err, envelope, init) ==
    [Outcome(op, err, envelope) EXCEPT !.init = init, !.unchanged = (object' = object)]

Init ==
    /\ tx = None
    /\ json = None
    /\ now = 0
    /\ out = Outcome("new", "ok", <<>>)
    /\ simStarted = 0
    /\ simCompleted = FALSE
    /\ cosigned = {}
    /\ builtAtSign = None
    /\ sent = None
    /\ client = None

\* A call that left everything as it was is not followed further: the caller
\* is where it was before the call, and goes on from there.
Going == ~out.unchanged

\* The transaction is followed up to the SentTransaction.init call that is made
\* with it, and then through that call.
Idle == sent = None

\* the caller holds a transaction and has not handed it over as JSON
Held == tx # None /\ json = None /\ Going /\ Idle

\* time passes
Tick ==
    /\ Going /\ Idle
    /\ now < MaxTime
    /\ now' = now + 1
    /\ UNCHANGED <<tx, json, simStarted, simCompleted, cosigned, builtAtSign, sent, client>>
    /\ out' = Done("tick", "ok", <<>>, <<>>)

\* AssembledTransaction.build(options) creates the transaction that is followed;
\* out.value holds the account and the simulate option of the call and the
\* requests it made
Build(options, simulateOpt, accountOk, rpc) ==
    LET r == build(options, simulateOpt, accountOk, rpc, now)
    IN /\ tx = None /\ Going /\ Idle
       /\ IF r.err = "ok"
          THEN /\ tx' = r.tx
               /\ simStarted' = IF r.tx.built # None THEN 1 ELSE 0
               /\ simCompleted' = (r.tx.simulation # None)
               /\ cosigned' = {}
               /\ builtAtSign' = None
          ELSE UNCHANGED <<tx, simStarted, simCompleted, cosigned, builtAtSign>>
       /\ UNCHANGED <<json, now, sent, client>>
       /\ out' = [Done("build", r.err, <<>>, <<>>)
                     EXCEPT !.value = <<[publicKey |-> options.publicKey,
                                         simulate |-> simulateOpt,
                                         requests |-> r.requests]>>]

\* tx.simulate()
Simulate(rpc) ==
    LET r == simulate(tx, rpc)
    IN /\ Held
       /\ tx.raw # None => simStarted < MaxSimulations
       /\ tx' = r.tx
       /\ simStarted' = IF tx.raw # None THEN simStarted + 1 ELSE simStarted
       /\ simCompleted' = (simCompleted \/ r.err = "ok")
       /\ cosigned' = IF tx.raw # None THEN {} ELSE cosigned
       /\ UNCHANGED <<json, now, builtAtSign, sent, client>>
       /\ out' = Done("simulate", r.err, <<>>, <<>>)

\* the caller reads tx.isReadCall; out.value holds the answer
GetIsReadCall ==
    /\ Held
    /\ tx' = AfterSimulationData(tx)
    /\ UNCHANGED <<json, now, simStarted, simCompleted, cosigned, builtAtSign, sent, client>>
    /\ out' = [Done("isReadCall", SimulationDataError(tx), <<>>, <<>>)
                  EXCEPT !.value = IF SimulationDataError(tx) = "ok"
                                   THEN <<isReadCall(tx)>> ELSE <<>>]

\* tx.sign({force, signTransaction})
Sign(force, signTransactionArg, signerOk) ==
    LET r == sign(tx, force, signTransactionArg, signerOk, now)
    IN /\ Held
       /\ signerOk \/ r.envelope # <<>>   \* a signer can only reject when it is called
       /\ tx' = r.tx
       /\ builtAtSign' = IF r.err = "ok" THEN r.tx.built ELSE builtAtSign
       /\ UNCHANGED <<json, now, simStarted, simCompleted, cosigned, sent, client>>
       /\ out' = Done("sign", r.err, r.envelope, <<>>)

\* tx.send()
Send ==
    LET r == send(tx)
    IN /\ Held
       /\ tx' = r.tx
       /\ UNCHANGED <<json, now, simStarted, simCompleted, cosigned, builtAtSign, sent, client>>
       /\ out' = Done("send", r.err, <<>>, r.init)

\* tx.signAndSend({force, signTransaction})
SignAndSend(force, signTransactionArg, signerOk) ==
    LET r == signAndSend(tx, force, signTransactionArg, signerOk, now)
    IN /\ Held
       /\ signerOk \/ r.envelope # <<>>   \* a signer can only reject when it is called
       /\ tx' = r.tx
       /\ builtAtSign' = IF r.tx.signed # tx.signed THEN r.tx.built ELSE builtAtSign
       /\ UNCHANGED <<json, now, simStarted, simCompleted, cosigned, sent, client>>
       /\ out' = Done("signAndSend", r.err, r.envelope, r.init)

\* tx.signAuthEntries({expiration, signAuthEntry, publicKey})
SignAuthEntries(expirationArg, signAuthEntryArg, publicKeyArg, liveUntil, expirationOk, failAt) ==
    LET r == signAuthEntries(tx, expirationArg, signAuthEntryArg, publicKeyArg,
                             liveUntil, expirationOk, failAt)
    IN /\ Held
       \* the lookup or the callback can only fail when it is awaited
       /\ (expirationOk /\ failAt = 0) \/ r.err \in {"RpcError", "SignerError"}
       /\ tx' = r.tx
       /\ cosigned' = IF r.err = "ok"
                      THEN cosigned \cup {ArgOr(publicKeyArg, tx.options.publicKey)}
                      ELSE cosigned
       /\ UNCHANGED <<json, now, simStarted, simCompleted, builtAtSign, sent, client>>
       /\ out' = Done("signAuthEntries", r.err, <<>>, <<>>)

\* tx.toJSON(): the text is handed over
ToJSON ==
    /\ Held
    /\ tx' = AfterSimulationData(tx)
    /\ json' = IF SimulationDataError(tx) = "ok" THEN toJSON(tx) ELSE json
    /\ UNCHANGED <<now, simStarted, simCompleted, cosigned, builtAtSign, sent, client>>
    /\ out' = Done("toJSON", SimulationDataError(tx), <<>>, <<>>)

\* client.txFromJSON(json) on the receiving client: the restored transaction is
\* the one followed from here on
FromJSON(clientOptions) ==
    /\ json # None
    /\ tx' = txFromJSON(clientOptions, json)
    /\ json' = None
    /\ builtAtSign' = None
    /\ UNCHANGED <<now, simStarted, simCompleted, cosigned, sent, client>>
    /\ out' = Done("fromJSON", "ok", <<>>, <<>>)

\* what can go wrong inside signAuthEntries: nothing, the expiration lookup, or
\* the signAuthEntry callback at the k-th entry it is called for
SignAuthFaults ==
    {[expirationOk |-> TRUE, failAt |-> 0], [expirationOk |-> FALSE, failAt |-> 0]}
        \cup {[expirationOk |-> TRUE, failAt |-> k] : k \in 1..MaxAuth}

Next ==
    \/ \E o \in BuildOptions, s \in {<<>>, <<TRUE>>, <<FALSE>>}, a \in BOOLEAN,
          rpc \in SimResponses \cup {RpcRejected} : Build(o, s, a, rpc)
    \/ \E rpc \in SimResponses \cup {RpcRejected} : Simulate(rpc)
    \/ GetIsReadCall
    \/ \E f \in BOOLEAN, st \in {Undef, Invoker}, ok \in BOOLEAN : Sign(f, st, ok)
    \/ Send
    \/ \E f \in BOOLEAN, st \in {Undef, Invoker}, ok \in BOOLEAN : SignAndSend(f, st, ok)
    \/ \E sa \in {Undef, "wallet"}, pk \in {Undef} \cup CoSigners, l \in LiveUntilLedgers,
          f \in SignAuthFaults :
          SignAuthEntries(<<>>, sa, pk, l, f.expirationOk, f.failAt)
    \/ ToJSON
    \/ \E o \in ClientOptions : FromJSON(o)

Spec == Init /\ [][Next]_vars

\* Building, simulating and signing while the clock runs
NextClock ==
    \/ Tick
    \/ \E o \in TimedBuildOptions, s \in {<<>>, <<FALSE>>}, rpc \in SimResponses :
          Build(o, s, TRUE, rpc)
    \/ \E rpc \in SimResponses : Simulate(rpc)
    \/ GetIsReadCall
    \/ \E f \in BOOLEAN, st \in {Undef, Invoker}, ok \in BOOLEAN : Sign(f, st, ok)

SpecClock == Init /\ [][NextClock]_vars

\* ------------------------------------------- SentTransaction.init on its own
\* The caller hands the transaction it holds to SentTransaction.init itself.
\* The call runs up to the start of the poll; each attempt of the poll is a
\* step of its own.
InitSent(signTransaction, updateTimeout, signerOk, response) ==
    LET r == SentInit(signTransaction, tx, updateTimeout, signerOk, response, now)
    IN /\ Held
       /\ signerOk \/ r.envelope # <<>>   \* a signer can only reject when it is called
       /\ tx' = r.tx
       /\ sent' = r.sent
       /\ UNCHANGED <<json, now, simStarted, simCompleted, cosigned, builtAtSign, client>>
       /\ out' = Done("init", r.err, r.envelope, <<>>)

\* one getTransaction attempt of the poll
Poll(response) ==
    /\ sent # None
    /\ sent.pc = "polling"
    /\ sent' = SentPoll(sent, response).sent
    /\ UNCHANGED <<tx, json, now, simStarted, simCompleted, cosigned, builtAtSign, client>>
    /\ out' = Done("poll", SentPoll(sent, response).err, <<>>, <<>>)

NextSent ==
    \/ Tick
    \/ \E o \in TimedBuildOptions, rpc \in SimResponses : Build(o, <<>>, TRUE, rpc)
    \/ \E f \in BOOLEAN, st \in {Undef, Invoker}, ok \in BOOLEAN : Sign(f, st, ok)
    \/ Send
    \/ \E f \in BOOLEAN, st \in {Undef, Invoker}, ok \in BOOLEAN : SignAndSend(f, st, ok)
    \/ \E st \in {Undef, Invoker}, u \in BOOLEAN, ok \in BOOLEAN,
          response \in SendTransactionResponses \cup {RequestRejected} :
          InitSent(st, u, ok, response)
    \/ \E response \in GetTransactionResponses \cup {RequestRejected} : Poll(response)

SpecSent == Init /\ [][NextSent]_vars

\* the network answers every getTransaction request of a poll that is running
SpecSentFair == SpecSent /\ WF_vars(\E response \in GetTransactionResponses \cup {RequestRejected} : Poll(response))

\* ------------------------------------------- SentTransaction.result on its own
\* what assembled.options.parseResultXdr does with a returnValue
SentParseOutcomes == {NoThrow, ErrorOf("TypeError", <<"invalid type">>)}

\* the caller reads sent.result of the SentTransaction it constructed and sent;
\* out.value holds what SentResult says of the access
GetSentResult(parse) ==
    /\ sent # None
    /\ Going
    \* parseResultXdr is only called with a returnValue
    /\ IF parse = NoThrow THEN TRUE
       ELSE IF sent.getTransactionResponse = None THEN FALSE
       ELSE HasReturnValue(sent.getTransactionResponse)
    /\ tx' = SentResult(sent, tx, parse).tx
    /\ UNCHANGED <<json, now, simStarted, simCompleted, cosigned, builtAtSign, sent, client>>
    /\ out' = [Done("sentResult",
                    IF SentResult(sent, tx, parse).returns THEN "ok" ELSE "thrown", <<>>, <<>>)
                  EXCEPT !.value = <<SentResult(sent, tx, parse)>>]

NextSentResult ==
    \/ \E o \in TimedBuildOptions, s \in {<<>>, <<FALSE>>}, rpc \in SimResponses :
          Build(o, s, TRUE, rpc)
    \/ \E st \in {Undef, Invoker}, u \in BOOLEAN, ok \in BOOLEAN,
          response \in SendTransactionResults \cup {RequestRejected} :
          InitSent(st, u, ok, response)
    \/ \E response \in GetTransactionResults \cup {RequestRejected} : Poll(response)
    \/ \E parse \in SentParseOutcomes : GetSentResult(parse)

SpecSentResult == Init /\ [][NextSentResult]_vars

\* --------------------------------------------------- ContractClient on its own
Copies == {"contract", "contract_client"}

\* the simulation answering a call that needs no signature but the invoker's
ClientSimResponses == {r \in SimSuccesses : r.result.auth = <<>>}

\* new ContractClient(spec, options)
New(copy, spec, options) ==
    /\ client = None /\ Going
    /\ client' = NewClient(copy, spec, options)
    /\ UNCHANGED <<tx, json, now, simStarted, simCompleted, cosigned, builtAtSign, sent>>
    /\ out' = Done("construct", "ok", <<>>, <<>>)

\* ContractClient.from(options); out.value holds the options, the lookups and
\* the rejection
From(copy, options, contractData, wasmCode) ==
    /\ client = None /\ Going
    /\ client' = from(copy, options, contractData, wasmCode).client
    /\ UNCHANGED <<tx, json, now, simStarted, simCompleted, cosigned, builtAtSign, sent>>
    /\ out' = [Done("from", from(copy, options, contractData, wasmCode).err, <<>>, <<>>)
                  EXCEPT !.value = <<[options |-> options,
                                      contractData |-> contractData, wasmCode |-> wasmCode,
                                      rejection |-> from(copy, options, contractData, wasmCode).value]>>]

\* the caller calls client[name] as the signature of the function says: with
\* (methodOptions?) when it has no inputs, with (args, methodOptions?) otherwise.
\* out.value holds the call and what build was handed.
Invoke(name, args, methodOptions, rpc) ==
    /\ client # None /\ tx = None /\ Going
    /\ name \in client.methods
    /\ LET noInputs == Len(getFunc(client.spec, name).inputs) = 0
           call == IF noInputs THEN CallMethod(client, name, methodOptions, None)
                   ELSE CallMethod(client, name, args, methodOptions)
           r == BuildCall(call, TRUE, rpc, now)
       IN /\ tx' = r.tx
          /\ simStarted' = IF r.tx.built # None THEN 1 ELSE 0
          /\ simCompleted' = (r.tx.simulation # None)
          /\ UNCHANGED <<json, now, cosigned, builtAtSign, sent, client>>
          /\ out' = [Done("invoke", r.err, <<>>, <<>>)
                        EXCEPT !.value = <<[name |-> name,
                                            args |-> IF noInputs THEN None ELSE args,
                                            methodOptions |-> methodOptions,
                                            call |-> call]>>]

NextClient ==
    \/ \E copy \in Copies, spec \in ContractSpecs, options \in ClientOptionsGiven :
          New(copy, spec, options)
    \/ \E copy \in Copies, rpcUrl \in {Undef, "rpc"},
          contractData \in ContractDataEntries, wasmCode \in WasmCodeEntries :
          From(copy, ClientOptionsOf(rpcUrl, <<>>, <<>>, <<>>), contractData, wasmCode)
    \/ \E name \in {"swap", "total"}, args \in ArgRecords,
          methodOptions \in MethodOptionsGiven, rpc \in ClientSimResponses :
          Invoke(name, args, methodOptions, rpc)

SpecClient == Init /\ [][NextClient]_vars

\* ------------------------------------------------------- result on its own
\* errorTypes not given, empty, or as the client derives it
ResultOptions ==
    {[OptionsOf(Invoker, <<>>) EXCEPT !.errorTypes = e] : e \in {<<>>, << <<>> >>, <<ErrorCases>>}}

\* the simulation answering a call without auth entries, or failing
ResultSimResponses ==
    {r \in SimSuccesses : r.result.auth = <<>>} \cup SimFailures \cup ContractFailures

\* the caller reads tx.result; options.parseResultXdr behaves as `parse`.
\* out.value holds what result() says of the access.
GetResult(parse) ==
    LET r == result(tx, parse)
    IN /\ Held
       \* parseResultXdr is only called when simulationData has not thrown
       /\ parse = NoThrow \/ SimulationDataError(tx) = "ok"
       /\ tx' = AfterSimulationData(tx)
       /\ UNCHANGED <<json, now, simStarted, simCompleted, cosigned, builtAtSign, sent, client>>
       /\ out' = [Done("result", IF r.returns THEN "ok" ELSE "thrown", <<>>, <<>>)
                     EXCEPT !.value = <<r>>]

NextResult ==
    \/ \E o \in ResultOptions, s \in {<<>>, <<FALSE>>}, rpc \in ResultSimResponses :
          Build(o, s, TRUE, rpc)
    \/ \E rpc \in ResultSimResponses : Simulate(rpc)
    \/ \E parse \in ParseOutcomes : GetResult(parse)

SpecResult == Init /\ [][NextResult]_vars

\* ------------------------------------- needsNonInvokerSigningBy on its own
\* A transaction as fromJSON restores it, with any auth list up to MaxAuthList:
\* source and address credentials, signed or not, repeated or not.
InitNeeds ==
    /\ \E auth \in SeqsUpTo(AllEntries, MaxAuthList) :
          tx = [NewAssembled(OptionsOf(Invoker, <<>>)) EXCEPT
                   !.built = [source |-> Invoker, fee |-> BASE_FEE, maxTime |-> DEFAULT_TIMEOUT,
                              auth |-> auth, sorobanData |-> None, envSig |-> FALSE]]
    /\ json = None
    /\ now = 0
    /\ out = Outcome("new", "ok", <<>>)
    /\ simStarted = 1
    /\ simCompleted = TRUE
    /\ cosigned = {}
    /\ builtAtSign = None
    /\ sent = None
    /\ client = None

\* tx.needsNonInvokerSigningBy({includeAlreadySigned}): out.value is the argument
\* and the list returned
NeedsNonInvokerSigningBy(includeAlreadySigned) ==
    /\ Held
    /\ UNCHANGED <<tx, json, now, simStarted, simCompleted, cosigned, builtAtSign, sent, client>>
    /\ out' = IF tx.built = None
              THEN Done("needsNonInvokerSigningBy", "Error", <<>>, <<>>)
              ELSE [Done("needsNonInvokerSigningBy", "ok", <<>>, <<>>) EXCEPT
                       !.value = <<includeAlreadySigned,
                                   needsNonInvokerSigningBy(tx.built, includeAlreadySigned)>>]

NextNeeds == \E includeAlreadySigned \in BOOLEAN : NeedsNonInvokerSigningBy(includeAlreadySigned)

SpecNeeds == InitNeeds /\ [][NextNeeds]_vars

\* ----------------------------------------------- signAuthEntries on its own
\* A transaction as txFromJSON restores it on the client of the invoker, of a
\* co-signer or of nobody, with any auth list up to MaxAuth: source and address
\* credentials, signed or not, repeated or not.
InitAuthEntries ==
    /\ \E auth \in SeqsUpTo(AllEntries, MaxAuth), o \in ClientOptions \cup BuildOptions :
          tx = [NewAssembled(o) EXCEPT
                   !.built = [source |-> Invoker, fee |-> BASE_FEE, maxTime |-> DEFAULT_TIMEOUT,
                              auth |-> auth, sorobanData |-> None, envSig |-> FALSE]]
    /\ json = None
    /\ now = 0
    /\ out = Outcome("new", "ok", <<>>)
    /\ simStarted = 1
    /\ simCompleted = TRUE
    /\ cosigned = {}
    /\ builtAtSign = None
    /\ sent = None
    /\ client = None

NextAuthEntries ==
    \E sa \in {Undef, "wallet"}, pk \in {Undef} \cup CoSigners, l \in LiveUntilLedgers,
       f \in SignAuthFaults :
       SignAuthEntries(<<>>, sa, pk, l, f.expirationOk, f.failAt)

SpecAuthEntries == InitAuthEntries /\ [][NextAuthEntries]_vars

\* ------------------------------------------------------------------ claims
\* the entries of an auth list that a call with includeAlreadySigned counts:
\* address credentials, and unless includeAlreadySigned a void signature
Counted(auth, includeAlreadySigned) ==
    {i \in 1..Len(auth) : /\ auth[i].cred = "address"
                          /\ (includeAlreadySigned \/ auth[i].sig = "scvVoid")}

\* the index of the first counted entry of an account
FirstOf(auth, includeAlreadySigned, acct) ==
    CHOOSE i \in Counted(auth, includeAlreadySigned) :
        /\ auth[i].acct = acct
        /\ \A j \in Counted(auth, includeAlreadySigned) : auth[j].acct = acct => i <= j

\* C3: needsNonInvokerSigningBy returns exactly the accounts of the entries of
\* built that have address credentials and, unless includeAlreadySigned, a void
\* signature: each account once, in the order of its first entry; entries with
\* source-account credentials never contribute.
C3_NeedsIsAccountsOfAddressEntries ==
    (out.op = "needsNonInvokerSigningBy" /\ out.err = "ok") =>
        LET incl == out.value[1]
            list == out.value[2]
            auth == tx.built.auth
        IN /\ \A p, q \in 1..Len(list) : p # q => list[p] # list[q]
           /\ {list[p] : p \in 1..Len(list)} = {auth[i].acct : i \in Counted(auth, incl)}
           /\ \A p, q \in 1..Len(list) :
                 p < q => FirstOf(auth, incl, list[p]) < FirstOf(auth, incl, list[q])
           /\ \A i \in 1..Len(auth) :
                 auth[i].cred = "source" => \A p \in 1..Len(list) : list[p] # auth[i].acct

\* C3 happens: asked without includeAlreadySigned about a list with a source
\* entry, a signed entry and an unsigned account that occurs twice
C3_Witness ==
    /\ out.op = "needsNonInvokerSigningBy"
    /\ out.value = <<FALSE, <<"GBOB">>>>
    /\ tx.built.auth = <<UnsignedEntry("GBOB"), SourceEntry,
                         SignedEntryOf(UnsignedEntry("GALICE"), 9), UnsignedEntry("GBOB")>>

\* C4: while signed is present, built is present and is the transaction that
\* was signed: nothing done after the signing changes built.
C4_SignedImpliesBuiltUnchanged ==
    (tx # None /\ tx.signed # None) => (tx.built # None /\ tx.built = builtAtSign)

\* C5, as stated: built is present exactly when a simulation has completed on
\* the transaction; so it is absent after build({simulate: false}) and after a
\* simulate() whose simulateTransaction request failed.
C5_BuiltIffSimulationCompleted ==
    tx # None => (tx.built # None <=> simCompleted)

\* C5, amended: built is present exactly when simulate() has reached raw.build()
\* on the transaction (or on the one it was restored from), which it does before
\* it sends the simulateTransaction request: present after every completed
\* simulation, absent after build({simulate: false}), present after a simulate()
\* whose request failed.
C5_BuiltIffSimulateReachedBuild ==
    tx # None =>
        /\ tx.built # None <=> simStarted > 0
        /\ simCompleted => tx.built # None
        /\ (out.op = "build" /\ out.err = "ok" /\ tx.simulation = None) => tx.built = None
        /\ (out.op = "simulate" /\ out.err = "RpcError") => tx.built # None

\* C5 happens: simulate() on a transaction built without simulation, and the
\* simulateTransaction request fails
C5_Witness ==
    /\ tx # None
    /\ out.op = "simulate" /\ out.err = "RpcError"
    /\ ~simCompleted
    /\ tx.built # None

\* C6: the transaction restored by fromJSON from the text toJSON produced has
\* the same built, and simulationData with the same retval, auth entries and
\* transaction data, whatever signatures signAuthEntries had spliced into built.
C6_JSONRoundTrip ==
    json # None =>
        \A o \in ClientOptions :
            LET restored == txFromJSON(o, json)
            IN /\ restored.built = tx.built
               /\ SimulationDataError(restored) = "ok"
               /\ SimulationData(restored).result.retval = SimulationData(tx).result.retval
               /\ SimulationData(restored).result.auth = SimulationData(tx).result.auth
               /\ SimulationData(restored).transactionData = SimulationData(tx).transactionData
               /\ toJSON(restored) = json

\* C6 happens: the text in flight carries a built with a spliced signature
C6_Witness ==
    /\ json # None
    /\ \E i \in 1..Len(tx.built.auth) : tx.built.auth[i].sig # "scvVoid"
    /\ \E i \in 1..Len(tx.built.auth) : tx.built.auth[i].sig = "scvVoid"
    /\ TxFromXDR(json.tx).auth = tx.built.auth

\* C1: once every account that must sign an auth entry of a simulated
\* transaction has, in turn, taken it over as JSON and completed
\* signAuthEntries, needsNonInvokerSigningBy() is empty and sign() by the
\* invoker succeeds and sets signed.
C1_CoSignedThenInvokerSigns ==
    (/\ Held
     /\ tx.built # None
     /\ tx.raw = None
     /\ tx.options.publicKey = Invoker
     /\ SimulationDataError(tx) = "ok"
     /\ needsNonInvokerSigningBy(tx.built, TRUE) # <<>>
     /\ \A i \in 1..Len(needsNonInvokerSigningBy(tx.built, TRUE)) :
           needsNonInvokerSigningBy(tx.built, TRUE)[i] \in cosigned)
    => /\ needsNonInvokerSigningBy(tx.built, FALSE) = <<>>
       /\ sign(tx, FALSE, Undef, TRUE, now).err = "ok"
       /\ sign(tx, FALSE, Undef, TRUE, now).tx.signed # None

\* the arguments sign() and signAndSend() are called with
Forces == BOOLEAN

SignerArgs == {Undef, Invoker}

C7_ReadCallNeedsForce ==
    [][(/\ out'.op = "sign"
        /\ tx.built # None
        /\ SimulationDataError(tx) = "ok"
        /\ isReadCall(tx)) =>
            \A f \in Forces, st \in SignerArgs, ok \in BOOLEAN :
                Sign(f, st, ok) =>
                    IF ~f
                    THEN /\ out'.err = "NoSignatureNeeded"
                         /\ out'.envelope = <<>>
                         /\ tx'.signed = tx.signed
                         /\ tx'.built = tx.built
                    ELSE /\ out'.err # "NoSignatureNeeded"
                         /\ (ArgOr(st, tx.options.signTransaction) # Undef
                             /\ needsNonInvokerSigningBy(tx.built, FALSE) = <<>>)
                               => /\ out'.envelope # <<>>
                                  /\ ok => (out'.err = "ok" /\ tx'.signed # None)
      ]_vars

\* C7 happens: sign() without force refused a read call
C7_Witness ==
    /\ out.op = "sign" /\ out.err = "NoSignatureNeeded"
    /\ tx.simulation # None /\ isSimulationSuccess(tx.simulation)
    /\ isReadCall(tx)
    /\ tx.signed = None

\* the precondition failure C8 states for a call of sign(), "none" if it
\* states none
StatedSignFailure(t, force, signer) ==
    IF t.built = None THEN "Error"
    ELSE IF ~force /\ SimulationDataError(t) = "ok" /\ isReadCall(t) THEN "NoSignatureNeeded"
    ELSE IF signer = Undef THEN "NoSigner"
    ELSE IF needsNonInvokerSigningBy(t.built, FALSE) # <<>> THEN "NeedsMoreSignatures"
    ELSE "none"

\* the same, with the failure of reading isReadCall in its place
AmendedSignFailure(t, force, signer) ==
    IF t.built = None THEN "Error"
    ELSE IF ~force /\ SimulationDataError(t) # "ok" THEN SimulationDataError(t)
    ELSE StatedSignFailure(t, force, signer)

\* C8, as stated: sign() checks in this order and throws on the first failure:
\* built absent, a generic error; unless force, NoSignatureNeeded if isReadCall
\* is true; NoSigner without a signTransaction; NeedsMoreSignatures with
\* co-signers missing.  The failing call leaves built and signed unchanged and
\* does not invoke the signer.
C8_SignChecksAsStated ==
    [][out'.op = "sign" =>
        \A f \in Forces, st \in SignerArgs, ok \in BOOLEAN :
            LET stated == StatedSignFailure(tx, f, ArgOr(st, tx.options.signTransaction))
            IN (Sign(f, st, ok) /\ stated # "none") =>
                   /\ out'.err = stated
                   /\ tx'.built = tx.built
                   /\ tx'.signed = tx.signed
                   /\ out'.envelope = <<>>
      ]_vars

\* C8, amended: between the check of built and the check of the signer, unless
\* force, sign() reads isReadCall, which throws the error of simulationData
\* (NotYetSimulated, simulation failed, ExpiredState) when the simulation data
\* are not available, and otherwise makes sign() throw NoSignatureNeeded for a
\* read call; the rest as stated.
C8_SignChecksInOrder ==
    [][out'.op = "sign" =>
        \A f \in Forces, st \in SignerArgs, ok \in BOOLEAN :
            LET failure == AmendedSignFailure(tx, f, ArgOr(st, tx.options.signTransaction))
            IN (Sign(f, st, ok) /\ failure # "none") =>
                   /\ out'.err = failure
                   /\ tx'.built = tx.built
                   /\ tx'.signed = tx.signed
                   /\ out'.envelope = <<>>
      ]_vars

\* C8 happens: sign() on a transaction whose simulation failed threw the error
\* of simulationData
C8_Witness ==
    /\ out.op = "sign" /\ out.err = "SimulationFailed"
    /\ tx.built # None
    /\ tx.simulation # None /\ isSimulationError(tx.simulation)
    /\ tx.options.signTransaction = Undef

C9_SignedEnvelopeIsBuiltWithFreshTimeout ==
    [][(out'.op = "sign" /\ out'.envelope # <<>>) =>
        LET envelope == TxFromXDR(out'.envelope)
        IN /\ envelope.maxTime = now + OrElse(tx.options.timeoutInSeconds, DEFAULT_TIMEOUT)
           /\ envelope.fee = tx.built.fee
           /\ envelope.auth = tx.built.auth
           /\ envelope.sorobanData = tx.built.sorobanData
      ]_vars

\* the part of C9 about the time bound alone
C9_TimeBoundIsSignTimePlusTimeout ==
    [][(out'.op = "sign" /\ out'.envelope # <<>>) =>
        TxFromXDR(out'.envelope).maxTime =
            now + OrElse(tx.options.timeoutInSeconds, DEFAULT_TIMEOUT)
      ]_vars

\* a step in which SentTransaction.send has got an envelope back from the signer
\* and stored it in SentTransaction.signed: the envelope it then submits
Submits == out'.op = "init" /\ (IF sent' = None THEN FALSE ELSE sent'.signed # None)

\* C11: the envelope that SentTransaction submits to sendTransaction and records
\* in SentTransaction.signed is the envelope that AssembledTransaction.sign()
\* stored in signed; sending neither rebuilds the transaction nor asks the signer
\* for a new signature.
C11_SubmitsWhatSignStored ==
    [][Submits => /\ sent'.signed = tx.signed
                  /\ tx'.built = tx.built
                  /\ out'.envelope = <<>>]_vars

\* C11, what the code does: the envelope submitted is the one SentTransaction.send
\* had signed itself, built as the call left it with a signature on it, whatever
\* sign() stored before
C11_SubmitsWhatSendHadSigned ==
    [][Submits => /\ out'.envelope = TxToXDR(tx'.built)
                  /\ sent'.signed = [tx'.built EXCEPT !.envSig = TRUE]
                  /\ tx'.signed = tx.signed]_vars

\* C11: sign() stored an envelope, time passed, and SentTransaction.init then
\* submitted another one
C11_SubmittedAnotherEnvelope ==
    /\ tx # None /\ sent # None
    /\ tx.signed # None /\ sent.signed # None
    /\ sent.signed # tx.signed

\* a read of result during which an error was raised whose text matches the
\* contract-error pattern
RaisedContractError ==
    /\ out.op = "result"
    /\ out.value[1].raised # NoThrow
    /\ implementsToString(out.value[1].raised)
    /\ ContractErrorMatches(ErrorToString(out.value[1].raised)) # {}

\* the code of that error
RaisedCode == parseInt(ContractErrorGroup(ErrorToString(out.value[1].raised)))

\* whether errorTypes of the transaction registers the code k
Registers(k) ==
    IF tx.options.errorTypes = <<>> THEN FALSE ELSE k \in DOMAIN tx.options.errorTypes[1]

\* C12: when evaluating result raises an error whose text matches the
\* contract-error pattern with code k (a simulation failure reported by the
\* simulator included) and errorTypes[k] is registered, result returns an
\* Err-tagged value carrying errorTypes[k] and does not throw.
C12_RegisteredContractErrorIsReturned ==
    (RaisedContractError /\ Registers(RaisedCode))
        => /\ out.value[1].returns
           /\ out.value[1].value = [tag |-> "Err", error |-> tx.options.errorTypes[1][RaisedCode]]

\* C12: a simulation failed with the contract error 2, which the client
\* registers, and result has been read
C12_Witness ==
    /\ RaisedContractError /\ Registers(RaisedCode)
    /\ out.value[1].raised.message[1] = "Transaction simulation failed:"
    /\ out.value[1].value.tag = "Err"

\* an Err-tagged value
IsErr(v) == IF "tag" \in DOMAIN v THEN v.tag = "Err" ELSE FALSE

\* C13, as stated: contract-numbered errors are never thrown from result: for
\* every error raised whose text matches the contract-error pattern, whatever
\* the code and whatever errorTypes contains, result returns an Err-tagged value
\* instead of throwing; all other failures propagate.
C13_ContractErrorsNeverThrown ==
    out.op = "result" =>
        /\ RaisedContractError => (out.value[1].returns /\ IsErr(out.value[1].value))
        /\ (out.value[1].raised # NoThrow /\ ~RaisedContractError)
              => (~out.value[1].returns /\ out.value[1].value = out.value[1].raised)

\* C13, amended: an error raised whose text matches the contract-error pattern
\* is returned as an Err-tagged value exactly when errorTypes is given and
\* registers its code; a contract error with an unregistered code, or any
\* contract error when errorTypes is not given, is thrown again as it was
\* raised, like every other failure.
C13_ContractErrorsThrownUnlessRegistered ==
    out.op = "result" =>
        /\ out.value[1].raised = NoThrow
              => (out.value[1].returns /\ ~IsErr(out.value[1].value))
        /\ (RaisedContractError /\ Registers(RaisedCode))
              => /\ out.value[1].returns
                 /\ out.value[1].value = [tag |-> "Err", error |-> tx.options.errorTypes[1][RaisedCode]]
        /\ (out.value[1].raised # NoThrow /\ ~(RaisedContractError /\ Registers(RaisedCode)))
              => (~out.value[1].returns /\ out.value[1].value = out.value[1].raised)

\* C13: a contract error whose code errorTypes does not register was raised
\* and result has thrown it
C13_Witness ==
    /\ RaisedContractError
    /\ tx.options.errorTypes # <<>>
    /\ ~Registers(RaisedCode)
    /\ ~out.value[1].returns

\* a transaction whose last simulation response is a failure
SimulationFailedOn(t) ==
    IF t = None THEN FALSE
    ELSE IF t.simulation = None THEN FALSE
    ELSE isSimulationError(t.simulation) \/ isSimulationRestore(t.simulation)

\* what every access of simulationData does on a transaction whose simulation
\* failed, and on one that has neither a simulation nor a cache
FailureRaisedAtAccess(t) ==
    /\ SimulationFailedOn(t)
          => /\ isSimulationRestore(t.simulation) => SimulationDataError(t) = "ExpiredState"
             /\ isSimulationError(t.simulation) => SimulationDataError(t) = "SimulationFailed"
             /\ t.simulationResult = None
             /\ t.simulationTransactionData = None
             /\ AfterSimulationData(t) = t
    /\ (IF t = None THEN FALSE
        ELSE t.simulation = None /\ t.simulationResult = None
                /\ t.simulationTransactionData = None)
          => SimulationDataError(t) = "NotYetSimulated"

\* C14: simulation failures are lazy: simulate() (and so build()) completes
\* without error when the response is an error or a restore response; the
\* failure is raised at every simulationData access instead (NotYetSimulated
\* when there is neither a simulation nor a cache, ExpiredState for a restore
\* response, the generic simulation-failed error for an error response), and in
\* these cases the cache fields stay unset.
C14_SimulationFailuresAreLazy ==
    [][/\ (out'.op = "simulate" /\ tx.raw # None)
          => \A rpc \in SimFailures : Simulate(rpc) => (out'.err = "ok" /\ tx'.simulation = rpc)
       /\ out'.op = "build"
          => \A o \in BuildOptions, rpc \in SimFailures :
                Build(o, <<>>, TRUE, rpc) => (out'.err = "ok" /\ tx'.simulation = rpc)
       /\ FailureRaisedAtAccess(tx')]_vars

\* C14: with one simulation per transaction, a simulation that ended in a
\* failure response completes, and the failure is raised at every access
C14_LazyOnFirstSimulation ==
    [][/\ (out'.op = "simulate" /\ tx.raw # None)
          => \A rpc \in SimFailures : Simulate(rpc) => (out'.err = "ok" /\ tx'.simulation = rpc)
       /\ out'.op = "build"
          => \A o \in BuildOptions, rpc \in SimFailures :
                Build(o, <<>>, TRUE, rpc) => (out'.err = "ok" /\ tx'.simulation = rpc)
       /\ simStarted' <= 1 => FailureRaisedAtAccess(tx')]_vars

\* a signAuthEntries() call on a transaction with built set
SignsAuthEntries == out'.op = "signAuthEntries" /\ tx.built # None

\* C15: signAuthEntries on a simulated transaction with zero candidate entries
\* (needsNonInvokerSigningBy() is empty) fails with
\* NoUnsignedNonInvokerAuthEntries.
C15_NothingToSignIsReported ==
    [][(SignsAuthEntries /\ needsNonInvokerSigningBy(tx.built, FALSE) = <<>>)
          => out'.err = "NoUnsignedNonInvokerAuthEntries"]_vars

\* C15, what the code does: the empty list is not falsy, no public key is found
\* in it, and the call fails with NoSignatureNeeded; no call ever fails with
\* NoUnsignedNonInvokerAuthEntries
C15_NothingToSignGivesNoSignatureNeeded ==
    [][/\ (SignsAuthEntries /\ needsNonInvokerSigningBy(tx.built, FALSE) = <<>>)
             => (out'.err = "NoSignatureNeeded" /\ tx' = tx)
       /\ out'.err # "NoUnsignedNonInvokerAuthEntries"]_vars

\* the public keys a signAuthEntries() call is given: none, or a co-signer's
PublicKeyArgs == {Undef} \cup CoSigners

\* whether the account is in the list needsNonInvokerSigningBy() returns
IsNeeded(t, publicKey) ==
    \E i \in 1..Len(needsNonInvokerSigningBy(t.built, FALSE)) :
        needsNonInvokerSigningBy(t.built, FALSE)[i] = publicKey

\* C16, as stated: signAuthEntries with no signAuthEntry callback (neither in
\* the call nor in the options) fails with NoSigner, for every publicKey and
\* every auth list, and changes no auth entry.
C16_NoCallbackIsNoSigner ==
    [][(SignsAuthEntries /\ tx.options.signAuthEntry = Undef)
          => \A pk \in PublicKeyArgs, l \in LiveUntilLedgers, f \in SignAuthFaults :
                SignAuthEntries(<<>>, Undef, pk, l, f.expirationOk, f.failAt)
                   => (out'.err = "NoSigner" /\ tx'.built = tx.built)]_vars

\* C16, amended: signAuthEntries with no signAuthEntry callback fails and
\* changes nothing, with NoSigner when publicKey is among
\* needsNonInvokerSigningBy(), and with NoSignatureNeeded when it is not (the
\* public key is checked first); with a generic error when built is absent.
C16_NoCallbackFailsPublicKeyFirst ==
    [][(out'.op = "signAuthEntries" /\ tx.options.signAuthEntry = Undef)
          => \A pk \in PublicKeyArgs, l \in LiveUntilLedgers, f \in SignAuthFaults :
                SignAuthEntries(<<>>, Undef, pk, l, f.expirationOk, f.failAt)
                   => /\ tx' = tx
                      /\ out'.err = IF tx.built = None THEN "Error"
                                    ELSE IF IsNeeded(tx, ArgOr(pk, tx.options.publicKey))
                                    THEN "NoSigner"
                                    ELSE "NoSignatureNeeded"]_vars

\* C16: a call without a callback for an account whose signature is needed has
\* failed with NoSigner
C16_Witness ==
    /\ out.op = "signAuthEntries" /\ out.err = "NoSigner"
    /\ tx.options.signAuthEntry = Undef
    /\ IsNeeded(tx, "GALICE")

\* C17: signAuthEntries with a publicKey (by default the options' publicKey)
\* that is not among needsNonInvokerSigningBy(), while that list is non-empty,
\* fails with NoSignatureNeeded, invokes no callback and leaves every auth
\* entry unchanged.
C17_UnneededPublicKeyIsRefused ==
    [][(SignsAuthEntries /\ needsNonInvokerSigningBy(tx.built, FALSE) # <<>>)
          => \A sa \in {Undef, "wallet"}, pk \in PublicKeyArgs, l \in LiveUntilLedgers,
                f \in SignAuthFaults :
                (/\ ~IsNeeded(tx, ArgOr(pk, tx.options.publicKey))
                 /\ SignAuthEntries(<<>>, sa, pk, l, f.expirationOk, f.failAt))
                   => /\ out'.err = "NoSignatureNeeded"
                      /\ f.failAt = 0
                      /\ tx' = tx]_vars

\* C17: a co-signer is needed, the invoker's client has a signAuthEntry
\* callback, and its signAuthEntries() call has been refused
C17_Witness ==
    /\ out.op = "signAuthEntries" /\ out.err = "NoSignatureNeeded"
    /\ tx.options.signAuthEntry # Undef
    /\ needsNonInvokerSigningBy(tx.built, FALSE) # <<>>
    /\ tx.built.auth = <<UnsignedEntry("GALICE")>>

\* a SentTransaction whose sendTransaction request was answered with a status
\* other than PENDING
Refused(s) ==
    IF s = None THEN FALSE
    ELSE IF s.sendTransactionResponse = None THEN FALSE
    ELSE s.sendTransactionResponse.status # "PENDING"

\* C18: if the sendTransaction response has a status other than PENDING,
\* SentTransaction.send fails with SendFailed, sendTransactionResponse holds
\* that response, and no getTransaction poll is issued
\* (getTransactionResponseAll and getTransactionResponse stay unset).
C18_NotPendingIsSendFailed ==
    [][/\ Submits
          => \A st \in {Undef, Invoker}, u \in BOOLEAN, ok \in BOOLEAN,
                response \in SendTransactionResponses :
                (InitSent(st, u, ok, response) /\ response.status # "PENDING")
                   => /\ out'.err = "SendFailed"
                      /\ sent'.sendTransactionResponse = response
       /\ Refused(sent')
          => /\ sent'.pc = "done"
             /\ sent'.attempts = <<>>
             /\ sent'.getTransactionResponseAll = <<>>
             /\ sent'.getTransactionResponse = None]_vars

\* C18: sendTransaction has answered ERROR and the call has failed with SendFailed
C18_Witness ==
    /\ Refused(sent)
    /\ sent.sendTransactionResponse.status = "ERROR"
    /\ out.op = "init" /\ out.err = "SendFailed"

\* a step in which the poll of SentTransaction.send has ended with a response
PollEnds == out'.op = "poll" /\ sent'.pc = "done" /\ out'.err # "RpcError"

\* every response recorded is NOT_FOUND
NeverFound(all) == \A i \in 1..Len(all) : all[i].status = "NOT_FOUND"

\* what C19 says of SentTransaction.send itself
StillPendingWhenLastIsNotFound ==
    PollEnds
       => /\ sent'.getTransactionResponseAll # <<>>
          /\ Len(sent'.getTransactionResponseAll[1]) >= 1
          /\ sent'.getTransactionResponse =
                sent'.getTransactionResponseAll[1][Len(sent'.getTransactionResponseAll[1])]
          /\ out'.err = IF sent'.getTransactionResponse.status = "NOT_FOUND"
                        THEN "TransactionStillPending" ELSE "ok"
          /\ NeverFound(sent'.getTransactionResponseAll[1])
                => (out'.err = "TransactionStillPending"
                      /\ sent'.waited = sent'.timeoutInSeconds)
          /\ sent'.signed # None
          /\ sent'.sendTransactionResponse # None

\* C19: if the RPC answers NOT_FOUND to every getTransaction poll until the
\* budget is spent, SentTransaction.send (and so signAndSend) fails with
\* TransactionStillPending exactly when the last recorded response is NOT_FOUND,
\* and at that point signed, sendTransactionResponse, getTransactionResponseAll
\* (with at least one element) and getTransactionResponse are all still set; a
\* signAndSend() that has signed hands the envelope to a SentTransaction, whose
\* submission and poll decide how it ends.
C19_StillPendingWhenNeverFound ==
    [][/\ StillPendingWhenLastIsNotFound
       /\ (out'.op = "signAndSend" /\ out'.init # <<>>)
             => (sent' # None /\ out'.err \in {"pending", "SendFailed", "RpcError"})]_vars

\* C19, for SentTransaction.init called with the transaction itself: the poll
\* ends with TransactionStillPending exactly when the last response recorded is
\* NOT_FOUND, with all four fields set
C19_SentStillPendingWhenNeverFound == [][StillPendingWhenLastIsNotFound]_vars

\* C19: every poll within five seconds was answered NOT_FOUND and the call has
\* failed with TransactionStillPending
C19_PolledInVain ==
    /\ out.op = "poll" /\ out.err = "TransactionStillPending"
    /\ sent.timeoutInSeconds = 5
    /\ Len(sent.getTransactionResponseAll[1]) = 4

\* the poll of a SentTransaction.send call is running
Polling == IF sent = None THEN FALSE ELSE sent.pc = "polling"

\* the call has ended: it has returned or thrown
SendEnded == IF sent = None THEN FALSE ELSE sent.pc = "done"

\* the attempts made and the time slept stay within the budget
WithinBudget ==
    IF sent = None THEN TRUE
    ELSE /\ sent.waited <= sent.timeoutInSeconds
         /\ Len(sent.attempts) <= sent.timeoutInSeconds + 1

\* how a poll that was answered every time has ended
ReturnedOrStillPending ==
    (SendEnded /\ out.op = "poll" /\ out.err # "RpcError")
        => out.err \in {"ok", "TransactionStillPending"}

\* C20: the poll loop eventually stops for every sequence of getTransaction
\* responses, NOT_FOUND forever included, after finitely many attempts and a
\* total wait of at most timeoutInSeconds; send then either returns or fails
\* with TransactionStillPending.
C20_PollStops ==
    /\ [](WithinBudget /\ ReturnedOrStillPending)
    /\ Polling ~> SendEnded

\* C20: with the default budget of thirty seconds every poll was answered
\* NOT_FOUND; the loop has stopped after six attempts and thirty seconds
C20_Witness ==
    /\ SendEnded /\ out.op = "poll" /\ out.err = "TransactionStillPending"
    /\ sent.timeoutInSeconds = DEFAULT_TIMEOUT
    /\ sent.waited = DEFAULT_TIMEOUT
    /\ Len(sent.attempts) = 6

\* the sleeps the poll has made so far: one after every attempt but the one
\* that ended it
SleepsMade(s) == IF s.pc = "polling" THEN Len(s.attempts)
                 ELSE IF s.attempts = <<>> THEN 0 ELSE Len(s.attempts) - 1

\* the time, counted from the submission, at which attempt k is made when the
\* sleeps are 1, 2, 4, ... seconds cut at the deadline
AttemptTime(k, timeoutInSeconds) == Min(2 ^ k - 1, timeoutInSeconds)

\* C21: backoff schedule: attempt 0 is made immediately after submission, and
\* after attempt i the loop sleeps min(2^i, remaining) seconds before attempt
\* i+1, where remaining is the time left until the deadline; no sleep ever
\* extends past the deadline.
C21_BackoffSchedule ==
    [][/\ (out'.op = "init" /\ out'.err = "pending")
             => (sent'.waited = 0 /\ sent'.attempts = <<>>)
       /\ (out'.op = "poll" /\ out'.err = "pending")
             => /\ sent'.waited - sent.waited
                      = Min(2 ^ Len(sent.attempts), sent.timeoutInSeconds - sent.waited)
                /\ sent'.waited <= sent.timeoutInSeconds
       /\ (out'.op = "poll" /\ out'.err # "RpcError")
             => /\ sent.waited = AttemptTime(Len(sent.attempts), sent.timeoutInSeconds)
                /\ sent'.waited = AttemptTime(SleepsMade(sent'), sent.timeoutInSeconds)]_vars

\* C21: with five seconds the loop has slept one and two seconds, and the
\* third sleep was cut from four seconds to the two that were left
C21_Witness ==
    /\ Polling
    /\ sent.timeoutInSeconds = 5
    /\ Len(sent.attempts) = 3
    /\ sent.waited = 5

\* every response but the last is NOT_FOUND
AllButLastNotFound(all) == \A i \in 1..(Len(all) - 1) : all[i].status = "NOT_FOUND"

\* send() has returned without an error: the step that ended the poll threw nothing
SendReturned == SendEnded /\ out.op = "poll" /\ out.err = "ok"

\* C22: polling stops at the first response whose status is not NOT_FOUND:
\* once the loop has ended every element of getTransactionResponseAll except
\* the last has status NOT_FOUND, and whenever send returns without error the
\* last response has a status other than NOT_FOUND.
C22_PollingStopsAtFirstFound ==
    IF sent = None THEN TRUE
    ELSE /\ sent.getTransactionResponseAll # <<>>
              => /\ sent.pc = "done"
                 /\ sent.getTransactionResponseAll[1] # <<>>
                 /\ AllButLastNotFound(sent.getTransactionResponseAll[1])
         /\ SendReturned
              => /\ sent.getTransactionResponseAll # <<>>
                 /\ sent.getTransactionResponse # None
                 /\ sent.getTransactionResponse.status # "NOT_FOUND"
                 /\ sent.getTransactionResponseAll[1][Len(sent.getTransactionResponseAll[1])].status
                       # "NOT_FOUND"

\* C22: send() has returned after two NOT_FOUND answers and a SUCCESS
C22_Witness ==
    /\ SendReturned
    /\ Len(sent.getTransactionResponseAll[1]) = 3
    /\ sent.getTransactionResponse.status = "SUCCESS"

\* a poll step that was answered records the answer as the newest attempt
AttemptRecorded(response) ==
    (out'.op = "poll" /\ out'.err # "RpcError" /\ response # RequestRejected
        /\ sent' = SentPoll(sent, response).sent)
        => sent'.attempts = Append(sent.attempts, response)

\* C23 (the attempts): every answered getTransaction request adds one element,
\* the answer, to the end of the attempts
C23_EveryAttemptIsRecorded ==
    [][out'.op = "poll"
          => \A response \in GetTransactionResponses : AttemptRecorded(response)]_vars

ReadSentResult == out.op = "sentResult"

\* what the access did when a final getTransactionResponse exists
ResultOfFinalResponse(r, response) ==
    IF HasReturnValue(response)
    THEN IF r.returns THEN r.value = Native(response.returnValue)
         ELSE r.value \in SentParseOutcomes \ {NoThrow}
    ELSE ~r.returns /\ r.value = TransactionFailed

\* what the access did when only a sendTransactionResponse exists
ResultOfSendResponse(r, response) ==
    /\ ~r.returns
    /\ r.value = IF HasErrorResult(response) THEN SendFailed(response) ELSE SendResultOnly

\* what the access did when neither exists
ResultOfNothing(r) ==
    /\ ~r.returns
    /\ r.value.name \notin {"SendFailed", "SendResultOnly"}
    /\ r.value # TransactionFailed

\* C24: SentTransaction.result is decided by the first case that applies, in
\* this order: a final getTransactionResponse with a returnValue gives
\* parseResultXdr(returnValue); a final getTransactionResponse without
\* returnValue throws a generic transaction-failed error; otherwise a
\* sendTransactionResponse with a decodable error result throws SendFailed;
\* otherwise a sendTransactionResponse without error throws SendResultOnly;
\* otherwise a generic failure is thrown.
C24_ResultByFirstCase ==
    ReadSentResult
       => IF sent.getTransactionResponse # None
          THEN ResultOfFinalResponse(out.value[1], sent.getTransactionResponse)
          ELSE IF sent.sendTransactionResponse # None
          THEN ResultOfSendResponse(out.value[1], sent.sendTransactionResponse)
          ELSE ResultOfNothing(out.value[1])

\* C24: the result is read after the poll ended with a SUCCESS that carries the
\* return value 2, while the sendTransactionResponse is there too
C24_Witness ==
    /\ ReadSentResult
    /\ sent.sendTransactionResponse # None
    /\ sent.getTransactionResponse = [status |-> "SUCCESS", returnValue |-> 2]
    /\ Len(sent.attempts) = 2
    /\ out.value[1].returns
    /\ out.value[1].value = Native(2)

\* a method of the client has just been called
Invoked == out.op = "invoke"

\* the methodOptions of the call reach build, under the keys the client's
\* options leave open
TakesMethodOptions(v) ==
    \A k \in MethodKeys :
        (MethodOptionsOf(v.methodOptions)[k] # <<>> /\ client.options[k] = <<>>)
            => v.call[k] = v.methodOptions[k]

\* the args of the call reach build as the values of the inputs, in their order
TakesArgs(v) ==
    LET inputs == getFunc(client.spec, v.name).inputs
    IN v.call.args = << [i \in 1..Len(inputs) |-> v.args[inputs[i]].native] >>

\* what C25 says of a call
BoundBySpec(v) ==
    /\ v.call.method = v.name
    /\ IF Len(getFunc(client.spec, v.name).inputs) = 0
       THEN BuiltArgs(v.call) = <<>> /\ TakesMethodOptions(v)
       ELSE TakesArgs(v) /\ TakesMethodOptions(v)

\* C25: spec-driven binding: for every function f of spec.funcs() the client
\* exposes a callable named f.name that calls AssembledTransaction.build with
\* method = f.name; a function with zero inputs takes only (methodOptions?) and
\* builds with no arguments, a function with at least one input takes
\* (args, methodOptions?) and builds with args marshalled by funcArgsToScVals.
C25_MethodsBoundBySpec ==
    /\ client # None => client.methods = FuncNames(client.spec)
    /\ Invoked => BoundBySpec(out.value[1])

\* C25, of the ContractClient of contract/ alone
C25_ContractMethodsBoundBySpec ==
    IF client = None THEN TRUE
    ELSE client.copy = "contract"
            => /\ client.methods = FuncNames(client.spec)
               /\ Invoked => BoundBySpec(out.value[1])

\* a function without inputs was called with methodOptions, on the
\* ContractClient of contract/
C25_ContractWitness ==
    /\ Invoked
    /\ client.copy = "contract"
    /\ out.value[1].name = "total"
    /\ out.value[1].methodOptions # None
    /\ out.value[1].call.fee = <<200>>

\* what C26 says of a call
MethodOptionsOverride(v) ==
    \A k \in MethodKeys :
        (MethodOptionsOf(v.methodOptions)[k] # <<>> /\ client.options[k] # <<>>)
            => v.call[k] = v.methodOptions[k]

\* C26: per-invocation MethodOptions override the client's options: for every
\* key (fee, timeoutInSeconds, simulate) present both in the methodOptions
\* passed to a client method and in the client's options,
\* AssembledTransaction.build receives the methodOptions value.
C26_MethodOptionsOverride ==
    Invoked => MethodOptionsOverride(out.value[1])

\* C26, of the ContractClient of contract/ alone
C26_ContractMethodOptionsOverride ==
    (Invoked /\ client.copy = "contract") => MethodOptionsOverride(out.value[1])

\* the client has a fee and the call another, on the ContractClient of contract/
C26_ContractWitness ==
    /\ Invoked
    /\ client.copy = "contract"
    /\ client.options.fee = <<300>>
    /\ out.value[1].methodOptions # None
    /\ out.value[1].call.fee = <<200>>
    /\ tx.raw.fee = 200

\* ContractClient.from has just been called with usable options
CalledFrom == out.op = "from" /\ out.value[1].options.rpcUrl # Undef

\* C27: ContractClient.from fails with a rejection value {code: 404} when the
\* contract-data ledger lookup returns no entry and also when the wasm-code
\* ledger lookup returns no entry; in both cases no client is returned.
C27_MissingEntryIsNotFound ==
    (CalledFrom /\ (out.value[1].contractData = None \/ out.value[1].wasmCode = None))
        => /\ out.err = "rejected"
           /\ out.value[1].rejection # <<>>
           /\ out.value[1].rejection[1].code = 404
           /\ client = None

\* C27, of the contract-data lookup alone, and that no client is returned
C27_MissingContractIsNotFound ==
    /\ (CalledFrom /\ out.value[1].contractData = None)
          => /\ out.err = "rejected"
             /\ out.value[1].rejection = <<NotFound("Could not obtain contract from server")>>
    /\ (CalledFrom /\ (out.value[1].contractData = None \/ out.value[1].wasmCode = None))
          => client = None

\* the contract was found and its wasm was not
C27_MissingWasm ==
    /\ CalledFrom
    /\ out.value[1].contractData # None
    /\ out.value[1].wasmCode = None
    /\ out.err = "TypeError"

\* C28: in every reachable state the two cache fields simulationResult and
\* simulationTransactionData are both present or both absent, across build,
\* simulate, simulationData access, fromJSON, signAuthEntries and sign.
C28_CacheFieldsTogether ==
    IF tx = None THEN TRUE
    ELSE (tx.simulationResult = None) <=> (tx.simulationTransactionData = None)

\* C28: a transaction that was simulated here, not restored from JSON, has
\* both fields filled by an access to simulationData, and has then been
\* simulated again
C28_Witness ==
    IF tx = None THEN FALSE
    ELSE /\ tx.simulation # None
         /\ tx.simulationResult # None
         /\ tx.simulationTransactionData # None
         /\ out.op = "simulate"

\* the entry as the account has signed it, to expire at the ledger expiration
Stamped(entry, expiration) ==
    [cred |-> "address", acct |-> entry.acct, sig |-> entry.acct, exp |-> expiration]

\* b is a with exactly the entries of publicKey replaced by their signed form
\* stamped with expiration, everything else where and as it was
OnlyEntriesOfReplaced(a, b, publicKey, expiration) ==
    /\ Len(b) = Len(a)
    /\ \A i \in 1..Len(a) :
          b[i] = IF a[i].cred = "address" /\ a[i].acct = publicKey
                 THEN Stamped(a[i], expiration) ELSE a[i]

\* C29: a signAuthEntries({publicKey}) call that completes replaces, in index
\* order, exactly the auth entries with address credentials for publicKey, each
\* by its signed form stamped with the one expiration value; entries with
\* source credentials and entries of other accounts are left unchanged, and the
\* number and the positions of the entries are preserved.
C29_OnlyOwnEntriesAreSigned ==
    [][(SignsAuthEntries /\ out'.err = "ok")
          => \A sa \in {Undef, "wallet"}, pk \in PublicKeyArgs, l \in LiveUntilLedgers :
                SignAuthEntries(<<>>, sa, pk, l, TRUE, 0)
                   => /\ OnlyEntriesOfReplaced(tx.built.auth, tx'.built.auth,
                                               ArgOr(pk, tx.options.publicKey), l)
                      /\ [tx' EXCEPT !.built.auth = tx.built.auth] = tx]_vars

\* C29: a call has completed on a list of two entries of which it signed the
\* second; the first, of another account, is still unsigned
C29_Witness ==
    /\ out.op = "signAuthEntries" /\ out.err = "ok"
    /\ Len(tx.built.auth) = 2
    /\ tx.built.auth[1].cred = "address" /\ tx.built.auth[1].sig = "scvVoid"
    /\ tx.built.auth[2].sig # "scvVoid"
    /\ tx.built.auth[2].acct # tx.built.auth[1].acct
    /\ cosigned = {tx.built.auth[2].acct}

\* what a transaction holds of its simulation, and raw and signed
SimulationAndEnvelope(t) ==
    <<t.simulation, t.simulationResult, t.simulationTransactionData, t.raw, t.signed>>

\* what isReadCall and result answer on a transaction, the error they throw
\* included, for every behaviour of parseResultXdr
ReadsOf(t) ==
    <<SimulationDataError(t),
      IF SimulationDataError(t) = "ok" THEN <<isReadCall(t)>> ELSE <<>>,
      [parse \in ParseOutcomes |->
          IF parse = NoThrow \/ SimulationDataError(t) = "ok"
          THEN <<result(t, parse)>> ELSE <<>>]>>

\* C30: signAuthEntries does not re-simulate: it issues no simulateTransaction
\* request and leaves simulation, simulationResult, simulationTransactionData,
\* raw and signed unchanged, so isReadCall and result are the same before and
\* after the call.
C30_SignAuthEntriesKeepsSimulation ==
    [][out'.op = "signAuthEntries"
          => /\ simStarted' = simStarted
             /\ simCompleted' = simCompleted
             /\ SimulationAndEnvelope(tx') = SimulationAndEnvelope(tx)
             /\ ReadsOf(tx') = ReadsOf(tx)]_vars

\* C30: a call has signed an entry of a transaction that was simulated here
\* and is not a read call
C30_Witness ==
    /\ out.op = "signAuthEntries" /\ out.err = "ok"
    /\ tx.simulation # None
    /\ SimulationDataError(tx) = "ok"
    /\ ~isReadCall(tx)
    /\ \E i \in 1..Len(tx.built.auth) : tx.built.auth[i].sig # "scvVoid"
    /\ \A i \in 1..Len(SimulationData(tx).result.auth) :
          SimulationData(tx).result.auth[i].sig = "scvVoid"

\* the errors of simulationData
SimulationDataErrors == {"NotYetSimulated", "SimulationFailed", "ExpiredState", "NoResult"}

\* what C31 says of an access to isReadCall on the transaction t
ReadCallAsStated(t, o) ==
    IF SimulationDataError(t) = "ok"
    THEN /\ o.err = "ok"
         /\ o.value = << /\ SimulationData(t).result.auth = <<>>
                         /\ SimulationData(t).transactionData.readWrite = 0 >>
    ELSE /\ o.err = SimulationDataError(t)
         /\ o.err \in SimulationDataErrors
         /\ o.value = <<>>

\* C31: isReadCall is true if and only if simulationData.result.auth is empty
\* and the read-write footprint of simulationData.transactionData is empty; it
\* is computed from the simulation data alone, so it does not change when auth
\* entries of built are signed, and it fails with the simulationData error when
\* no simulation data is available.
C31_IsReadCallFromSimulationData ==
    [][/\ out'.op = "isReadCall" => ReadCallAsStated(tx, out')
       /\ (out'.op = "signAuthEntries" /\ SimulationDataError(tx) = "ok")
             => /\ SimulationDataError(tx') = "ok"
                /\ isReadCall(tx') = isReadCall(tx)]_vars

\* C31: the simulation reported no auth entry and a read-write footprint, and
\* isReadCall answered false
C31_Witness ==
    /\ out.op = "isReadCall" /\ out.value = <<FALSE>>
    /\ SimulationData(tx).result.auth = <<>>
    /\ SimulationData(tx).transactionData.readWrite > 0

\* the positions of a request in the requests a call made
PositionsOf(requests, request) == {i \in DOMAIN requests : requests[i] = request}

\* the call of build that has just returned: its options and its requests
BuildCalled == out.op = "build" /\ out.value # <<>>

\* C32: build() asks the RPC server for the account exactly when publicKey is
\* set, once and before any simulateTransaction; without publicKey no getAccount
\* is made and the source is the null account with sequence 0; when the account
\* was obtained, simulateTransaction is made exactly once if options.simulate is
\* true or unset and never if it is false, and then the returned transaction has
\* raw set and built, simulation and signed absent.
C32_BuildRequestOrder ==
    BuildCalled =>
        LET call == out.value[1]
            accounts == PositionsOf(call.requests, "getAccount")
            simulations == PositionsOf(call.requests, "simulateTransaction")
            accountFailed == call.publicKey # Undef /\ simulations = {} /\ out.err = "RpcError"
        IN /\ Cardinality(accounts) = (IF call.publicKey # Undef THEN 1 ELSE 0)
           /\ \A a \in accounts : \A m \in simulations : a < m
           /\ Len(call.requests) = Cardinality(accounts) + Cardinality(simulations)
           /\ (OrElse(call.simulate, TRUE) /\ ~accountFailed) => Cardinality(simulations) = 1
           /\ ~OrElse(call.simulate, TRUE) => simulations = {}
           /\ (out.err = "ok" /\ call.publicKey = Undef)
                  => (tx.raw.source = NULL_ACCOUNT /\ tx.raw.sequence = 0)
           /\ (out.err = "ok" /\ call.publicKey # Undef)
                  => (tx.raw.source = call.publicKey /\ tx.raw.sequence # 0)
           /\ (~OrElse(call.simulate, TRUE) /\ out.err = "ok")
                  => /\ tx.raw # None
                     /\ tx.built = None /\ tx.simulation = None /\ tx.signed = None

\* build() with publicKey set and simulate unset has fetched the account and then simulated once
C32_Witness ==
    /\ BuildCalled /\ out.err = "ok"
    /\ out.value[1].publicKey # Undef /\ out.value[1].simulate = <<>>
    /\ out.value[1].requests = <<"getAccount", "simulateTransaction">>
    /\ tx.simulation # None

\* what sign() may answer when the simulation data is at hand
SignAnswers == {"ok", "NoSignatureNeeded", "NoSigner", "NeedsMoreSignatures", "SignerError"}

\* the transaction t as fromJSON returns it: built and the cache, nothing else
FreshFromJSON(t) ==
    /\ t.built # None /\ t.simulationResult # None /\ t.simulationTransactionData # None
    /\ t.raw = None /\ t.simulation = None /\ t.signed = None

\* simulationData, isReadCall, result, needsNonInvokerSigningBy and sign answer from the cache of t
WorksFromCache(t) ==
    LET cache == [result |-> t.simulationResult, transactionData |-> t.simulationTransactionData]
    IN /\ SimulationDataError(t) = "ok" /\ SimulationData(t) = cache
       /\ AfterSimulationData(t) = t
       /\ isReadCall(t) = (Len(cache.result.auth) = 0 /\ cache.transactionData.readWrite = 0)
       /\ result(t, NoThrow).returns
       /\ result(t, NoThrow).value = Native(cache.result.retval)
       /\ \A includeAlreadySigned \in BOOLEAN :
              \A i \in DOMAIN needsNonInvokerSigningBy(t.built, includeAlreadySigned) :
                  needsNonInvokerSigningBy(t.built, includeAlreadySigned)[i] \in CoSigners
       /\ \A force \in BOOLEAN, st \in {Undef, Invoker}, ok \in BOOLEAN :
              LET r == sign(t, force, st, ok, now)
              IN /\ r.err \in SignAnswers
                 /\ r.err = "NoSignatureNeeded" <=> (~force /\ isReadCall(t))
                 /\ r.err = "ok" => /\ r.tx.signed # None
                                    /\ r.tx.built.sorobanData = cache.transactionData

\* C33: a transaction returned by fromJSON has built and both cache fields set
\* and raw, simulation and signed absent; simulationData, isReadCall, result,
\* needsNonInvokerSigningBy and sign work on it from the cache; simulate() on a
\* transaction without raw fails with an Error, makes no simulateTransaction
\* request and leaves the transaction, built and cache included, as it was.
C33_RestoredWorksFromCache ==
    [][/\ out'.op = "fromJSON" => (FreshFromJSON(tx') /\ WorksFromCache(tx'))
       /\ (out'.op = "simulate" /\ tx.raw = None)
              => /\ out'.err = "Error"
                 /\ tx' = tx
                 /\ simStarted' = simStarted]_vars

\* simulate() has just failed on a transaction that came from JSON
C33_Witness ==
    /\ out.op = "simulate" /\ out.err = "Error"
    /\ tx # None /\ tx.raw = None /\ tx.built # None /\ tx.simulationResult # None

\* a step of send(), signAndSend() or SentTransaction.init on a transaction whose
\* signed is set: the signTransaction callback has been invoked for it before
SendsSigned == out'.op \in {"send", "signAndSend", "init"} /\ tx.signed # None

\* C34: over one signAndSend(), or one sign() followed by one send(), that
\* reaches the sendTransaction request, the signTransaction callback is invoked
\* exactly once: once signed has been set, sending does not invoke it again
\* (out.envelope is what a step handed to the callback, empty when it was not
\* invoked).
C34_SignTransactionCalledOnce ==
    [][SendsSigned => out'.envelope = <<>>]_vars

\* C34, what the code does: every step that reaches the sendTransaction request
\* has invoked the callback itself, whether signed was set before or not, and
\* send() and signAndSend() never reach the request
C34_SubmittingAsksTheSigner ==
    [][/\ Submits => out'.envelope # <<>>
       /\ out'.op \in {"send", "signAndSend"} => sent' = None]_vars

\* C34: sign() had stored signed, and the step that submitted the transaction
\* invoked the callback once more
C34_SignedTwice ==
    /\ out.op = "init" /\ out.envelope # <<>>
    /\ tx.signed # None /\ builtAtSign # None
    /\ sent # None /\ sent.signed # None /\ sent.sendTransactionResponse # None

\* the transaction t with the cache of simulationData emptied: what the getter
\* answers from t.simulation alone
WithoutCache(t) == [t EXCEPT !.simulationResult = None, !.simulationTransactionData = None]

\* simulationData of t is what the simulation stored in t gives
ReflectsSimulation(t) ==
    /\ SimulationDataError(t) = SimulationDataError(WithoutCache(t))
    /\ SimulationDataError(t) = "ok" => SimulationData(t) = SimulationData(WithoutCache(t))

\* a step of simulate() that completed: the server answered
SimulateCompletes == out'.op = "simulate" /\ out'.err = "ok"

\* C35: after every simulate() that completes, simulationData (and with it
\* result, isReadCall, toJSON and the soroban data sign uses) reflects the most
\* recent simulation, also when simulationData had been read after an earlier
\* simulation.
C35_SimulationDataIsOfLastSimulation ==
    [][SimulateCompletes => ReflectsSimulation(tx')]_vars

\* C35, what the code does: simulationData reflects the most recent simulation
\* exactly as long as it was never read with success; once read, a later
\* simulate() leaves its answer as it was
C35_SimulationDataIsOfFirstRead ==
    [][SimulateCompletes =>
          IF SimulationDataError(tx) = "ok" /\ tx.simulationResult # None
          THEN /\ SimulationDataError(tx') = "ok"
               /\ SimulationData(tx') = SimulationData(tx)
          ELSE ReflectsSimulation(tx')]_vars

\* C35: a second simulate() completed with an answer that simulationData does not give
C35_StaleSimulationData ==
    /\ out.op = "simulate" /\ out.err = "ok"
    /\ tx.simulation # None /\ isSimulationSuccess(tx.simulation)
    /\ SimulationDataError(tx) = "ok"
    /\ SimulationData(tx) # SimulationData(WithoutCache(tx))

\* the accounts in a list of public keys
Accounts(keys) == {keys[i] : i \in DOMAIN keys}

\* needsNonInvokerSigningBy() and needsNonInvokerSigningBy({includeAlreadySigned: true}) of t
StillNeeded(t) == needsNonInvokerSigningBy(t.built, FALSE)
EverNeeded(t) == needsNonInvokerSigningBy(t.built, TRUE)

\* the list keys without the public key publicKey
WithoutKey(keys, publicKey) == SelectSeq(keys, LAMBDA k : k # publicKey)

SignAuthEntriesFails == out'.op = "signAuthEntries" /\ out'.err # "ok"

\* the auth entries of t that are not what they were in u
ChangedEntries(t, u) == {i \in DOMAIN t.built.auth : t.built.auth[i] # u.built.auth[i]}

\* C37: signAuthEntries is all-or-nothing: when it fails, for whatever reason
\* (a check, the expiration lookup, or the signAuthEntry callback rejecting
\* while a later entry of the same publicKey is processed), no auth entry has
\* been changed.
C37_SignAuthEntriesAllOrNothing ==
    [][SignAuthEntriesFails => tx' = tx]_vars

\* C37, what the code does: a failure of a check or of the expiration lookup
\* changes nothing; when the callback rejects, the entries of publicKey that
\* stand before the one it rejected are signed already, and only those
C37_EntriesBeforeTheFailureStaySigned ==
    [][SignAuthEntriesFails =>
          IF out'.err # "SignerError" THEN tx' = tx
          ELSE /\ [tx' EXCEPT !.built.auth = tx.built.auth] = tx
               /\ \E publicKey \in Accounts(StillNeeded(tx)) :
                      /\ \A i \in ChangedEntries(tx', tx) :
                             /\ IsEntryOf(tx.built.auth[i], publicKey)
                             /\ tx'.built.auth[i].sig # "scvVoid"
                      /\ \E j \in DOMAIN tx.built.auth \ ChangedEntries(tx', tx) :
                             /\ IsEntryOf(tx.built.auth[j], publicKey)
                             /\ \A i \in ChangedEntries(tx', tx) : i < j]_vars

\* C37: signAuthEntries() failed and left one entry of the account signed and
\* a later one unsigned
C37_PartlySigned ==
    /\ out.op = "signAuthEntries" /\ out.err = "SignerError"
    /\ \E i, j \in DOMAIN tx.built.auth :
           /\ i < j
           /\ tx.built.auth[i].cred = "address" /\ tx.built.auth[j].cred = "address"
           /\ tx.built.auth[i].acct = tx.built.auth[j].acct
           /\ tx.built.auth[i].sig # "scvVoid" /\ tx.built.auth[j].sig = "scvVoid"
    /\ Len(StillNeeded(tx)) = 1

====
